---- MODULE Spec2Model ----
(***************************************************************************)
(* A model of the busybee workflow engine core: the shard transaction      *)
(* (pkg/core transaction), the engine controller (pkg/core engine) and the *)
(* queue append batch of the storage layer (pkg/storage batch).            *)
(*                                                                         *)
(* The three parts share no state; each has its own specification         *)
(* (SpecTran, SpecEngine, SpecQueue) that leaves the other parts' variables *)
(* at their initial values.                                                *)
(***************************************************************************)
EXTENDS Integers, Sequences, FiniteSets, TLC

VARIABLES
    (* ---- shard transaction (transaction struct and its worker) ---- *)
    w,          \* the stateWorker: state.States, totalCrowds, stepCrowds
    tran,       \* the transaction struct
    tick,       \* position of the worker loop: "idle" or "open"
    nops,       \* items handled in the open tick
    nticks,     \* ticks started on the transaction object
    wpanic,     \* the worker goroutine panicked (index out of range)
    nlate,      \* items handled in the open tick with tran.err already set
    chainWalk,  \* the chain walk of maybeTriggerDirectSteps, hop by hop
    (* ---- the store, as the engine controller uses it ---- *)
    cur,        \* workflow/current/{id}: the WorkflowInstance, or NoInstance
    nextID,     \* the ID service: the next InstanceID AllocID returns
    bitmaps,    \* workflow/crowd/{wid}/{instanceID}: the instance's crowd
    shards,     \* workflow/state/{wid}/{index}: per-step crowds, <<>> if absent
    history,    \* workflow/history/{wid}/{instanceID}: the snapshot
    inputQ,     \* partition 0 of the tenant's input queue
    eventC,     \* the storage event stream (eng.eventC)
    (* ---- the engine controller ---- *)
    retryNewInstanceC,
    retryStoppingInstanceC,
    retryCompleteInstanceC,
    workers,    \* eng.workers: the registered worker keys (shard indexes)
    gc,         \* instances whose doRemoveShardBitmaps goroutine is pending
    engFatal,   \* logger.Fatalf was reached: the process is gone
    call,       \* the API call the last step completed, with its result
    agg,        \* an aggregation query between its two reads
    nfail,      \* storage failures injected so far
    (* ---- one queue partition and the append batch of its shard ---- *)
    qs,         \* the store: the max/removed offsets value and the items
    consumers,  \* the consumer groups' values: committed offset, last ts
    now,        \* time.Now().Unix()
    qb,         \* the queueBatch struct
    qphase,     \* the batch's place in its life: "open", "executed", "failed"
    qdown,      \* the process exited (log.Fatalf) or panicked
    nsub,       \* items submitted so far; an item's payload is its number
    (* ---- event routing of the engine (range cache of one instance) ---- *)
    rinstance,  \* the stored WorkflowInstance: Crowd, MaxPerShard, state
    rangeCache, \* eng.rangeCache entry of the instance, NoRanges if absent
    stepCall,   \* the Step call the last step completed, with its result
    (* ---- the timer wheel ---- *)
    timers,     \* pending stopWorker callbacks (StopAt), counted by worker key
    (* ---- the KV crowd loader ---- *)
    kvload,     \* one kvLoader.Get: the stored bitmap, bm, start, total
    (* ---- the stop of an instance after its Duration ---- *)
    ctl         \* clock, instance, event stream, timer wheel, stopInstanceC

tranVars == <<w, tran, tick, nops, nticks, wpanic, nlate, chainWalk>>

storeVars == <<cur, nextID, bitmaps, shards, history, inputQ, eventC>>

engVars ==
    <<storeVars, retryNewInstanceC, retryStoppingInstanceC,
      retryCompleteInstanceC, workers, gc, engFatal, call, agg, nfail>>

queueVars == <<qs, consumers, now, qb, qphase, qdown, nsub>>

routeVars == <<rinstance, rangeCache, stepCall>>

regVars == <<timers>>

loadVars == <<kvload>>

stopVars == <<ctl>>

vars == <<tranVars, engVars, queueVars, routeVars, regVars, loadVars, stopVars>>

-----------------------------------------------------------------------------
(* Bounds of the model *)

\* user IDs of the shard are 1..MaxUser
MaxUser == 2
\* items (timer, user events, crowd update) handled in one tick
MaxOps == 2
\* user events carried by one queue item
MaxEvents == 2
\* ticks run on one transaction object
MaxTicks == 2
\* user IDs a crowd bitmap handed to the engine may hold are 1..MaxCrowdUser
MaxCrowdUser == 2
\* shard count an instance may be started with
MaxWorkers == 2
\* shard size (MaxPerShard) an instance may be created with
MaxPerShard == 2
\* worker events waiting on eventC in the registry specification
MaxRegEvents == 2
\* stopWorker callbacks pending for one worker key
MaxTimers == 2
\* iterations of the chain loop of maybeTriggerDirectSteps that are followed
MaxHops == 5
\* IDs a BMRange request returns at most (the loader's limit, 80000)
limit == 2
\* width in bits of the loader's running total that the model keeps
TotalBits == 2
\* the clock of the stop-after-Duration specification runs from 0 to MaxTime
MaxTime == 4
\* the Duration, in seconds, of a workflow that has one
MaxDuration == 2
\* instances of the workflow that reach Running in a run
MaxStarts == 2
\* StopInstance commands of the controller that fail in a run
MaxStopFail == 1
\* capacity of stopInstanceC (1024 in NewEngine)
StopInstanceCap == 1
\* eng.opts.retryInterval in seconds
retryInterval == 1
\* InstanceIDs the ID service hands out
MaxInstances == 2
\* storage failures (a command, read or write returning an error) per run
MaxFail == 1
\* events kept in partition 0 of the input queue
MaxInputQ == 1
\* versions of the workflow definition
MaxVersions == 2
\* items submitted to the queue partition in a run
MaxQItems == 3
\* items of one QueueAdd request
MaxReqItems == 2
\* consumer groups of the partition
MaxGroups == 2
\* times the clock is advanced, by maxConsumerAlive each time
MaxClock == 1

-----------------------------------------------------------------------------
(* Crowds: sets of user IDs.  ShardUsers may sit in this shard; the       *)
(* ForeignUser belongs to another shard of the same instance.              *)

ShardUsers == 1..MaxUser
ForeignUser == MaxUser + 1
AllUsers == ShardUsers \cup {ForeignUser}

RECURSIVE UnionOf(_, _)
UnionOf(crowds, n) ==
    IF n = 0 THEN {} ELSE crowds[n] \cup UnionOf(crowds, n - 1)

PairwiseDisjoint(crowds, n) ==
    \A i, j \in 1..n : i # j => crowds[i] \cap crowds[j] = {}

-----------------------------------------------------------------------------
(* Workflow steps as the worker holds them in w.state.States *)

Timer == "Timer"
Direct == "Direct"
Conditional == "Conditional"
NoStep == ""

Step(n, t, nx, ttl) == [name |-> n, type |-> t, next |-> nx, ttl |-> ttl]

\* The workflows the worker is started with.  Each passes checkExcution:
\* every target names a step, and the Direct edges alone form no cycle.
Workflows ==
    { << Step("S1", Conditional, "S2", 0), Step("S2", Conditional, "S3", 5),
         Step("S3", Conditional, NoStep, 0) >>,
      << Step("S1", Conditional, "S2", 0), Step("S2", Direct, "S3", 0),
         Step("S3", Conditional, NoStep, 0) >>,
      << Step("S1", Timer, "S2", 0), Step("S2", Direct, "S3", 0),
         Step("S3", Direct, "S1", 0) >>,
      << Step("S1", Direct, "S2", 0), Step("S2", Conditional, "S1", 0),
         Step("S3", Timer, "S1", 0) >>,
      << Step("S1", Timer, "S3", 0), Step("S2", Conditional, "S1", 0),
         Step("S3", Conditional, "S2", 5) >> }

NSteps == Len(w.states)

\* stateWorker.isDirectStep / stateWorker.directSteps
isDirectStep(name) ==
    \E i \in 1..NSteps : w.states[i].name = name /\ w.states[i].type = Direct

directSteps(name) ==
    IF isDirectStep(name)
    THEN w.states[CHOOSE i \in 1..NSteps :
                      w.states[i].name = name /\ w.states[i].type = Direct].next
    ELSE NoStep

-----------------------------------------------------------------------------
(* who: one user (users = nil) or a bulk crowd *)

WhoUser(u) == [user |-> u, users |-> {}, bulk |-> FALSE]
WhoUsers(S) == [user |-> 0, users |-> S, bulk |-> TRUE]

changedCtx(from, to, target, ttl) ==
    [from |-> from, to |-> to, who |-> target, ttl |-> ttl]

WhoSet(target) == IF target.bulk THEN target.users ELSE {target.user}

\* changedCtx.add: merge the moved users into the record's crowd
ctxAdd(rec, changed) ==
    [rec EXCEPT !.who = WhoUsers(rec.who.users \cup WhoSet(changed.who))]

-----------------------------------------------------------------------------
(* transaction *)

newTransaction ==
    [totalCrowds |-> {}, stepCrowds |-> <<>>, err |-> FALSE, cbs |-> <<>>,
     changes |-> <<>>, crowdChanged |-> FALSE]

\* no chain walk of maybeTriggerDirectSteps is under way
NoWalk == [on |-> FALSE, idx |-> 0, from |-> NoStep, to |-> NoStep, hops |-> 0]

\* transaction.start: copy the worker's crowds; the step copies are APPENDED
start(t) ==
    [t EXCEPT !.totalCrowds = w.totalCrowds,
              !.stepCrowds = t.stepCrowds \o w.stepCrowds]

\* a start that takes the worker's bitmaps themselves
sharedAll(t) == 0..Len(t.stepCrowds)

\* the crowds of the transaction that are the worker's own bitmap objects:
\* index 0 for totalCrowds, i for step crowd i.  start fills a bitmap of
\* the pool with each of the worker's crowds (acquireBM, Or), so none is
sharedWithWorker(t) == {}

\* the worker's crowds as an operation that took t to t2 leaves them: a
\* bitmap the worker shares with the transaction has changed with it
workerSees(t, t2) ==
    [w EXCEPT !.totalCrowds = IF 0 \in sharedWithWorker(t)
                              THEN t2.totalCrowds ELSE @,
              !.stepCrowds = [i \in 1..Len(@) |->
                                 IF i \in sharedWithWorker(t)
                                    /\ i <= Len(t2.stepCrowds)
                                 THEN t2.stepCrowds[i] ELSE @[i]]]

\* a removeFromStep that flips the membership of the target's users
removeFromStepXor(t, idx, target) ==
    [tran |-> [t EXCEPT !.stepCrowds[idx] =
                            (@ \ WhoSet(target)) \cup (WhoSet(target) \ @)],
     changed |-> FALSE]

\* transaction.removeFromStep: returns the transaction and `changed`
removeFromStep(t, idx, target) ==
    IF target.bulk
    THEN LET afterChanged == t.stepCrowds[idx] \ target.users
         IN [tran |-> IF Cardinality(t.stepCrowds[idx]) = Cardinality(afterChanged)
                      THEN t
                      ELSE [t EXCEPT !.stepCrowds[idx] = afterChanged],
             changed |-> FALSE]
    ELSE [tran |-> [t EXCEPT !.stepCrowds[idx] = @ \ {target.user}],
          changed |-> FALSE]

\* transaction.moveToStep
moveToStep(t, idx, target) ==
    IF target.bulk
    THEN LET afterChanged == t.stepCrowds[idx] \cup target.users
         IN IF Cardinality(t.stepCrowds[idx]) = Cardinality(afterChanged)
            THEN [tran |-> t, changed |-> FALSE]
            ELSE [tran |-> [t EXCEPT !.stepCrowds[idx] = afterChanged],
                  changed |-> TRUE]
    ELSE [tran |-> [t EXCEPT !.stepCrowds[idx] = @ \cup {target.user}],
          changed |-> TRUE]

\* an addChanged that never merges
addChangedAppends(t, changed) ==
    [t EXCEPT !.changes =
                  Append(@, ctxAdd(changedCtx(changed.from, changed.to,
                                              WhoUsers({}), changed.ttl),
                                   changed)),
              !.crowdChanged = TRUE]

\* transaction.addChanged
addChanged(t, changed) ==
    IF \E i \in 1..Len(t.changes) :
           t.changes[i].from = changed.from /\ t.changes[i].to = changed.to
    THEN LET i == CHOOSE k \in 1..Len(t.changes) :
                      /\ t.changes[k].from = changed.from
                      /\ t.changes[k].to = changed.to
                      /\ \A j \in 1..(k - 1) :
                             ~(t.changes[j].from = changed.from
                               /\ t.changes[j].to = changed.to)
         IN [t EXCEPT !.changes[i] = ctxAdd(@, changed)]
    ELSE [t EXCEPT !.changes =
                       Append(@, ctxAdd(changedCtx(changed.from, changed.to,
                                                   WhoUsers({}), changed.ttl),
                                        changed)),
                   !.crowdChanged = TRUE]

\* the chain walk of maybeTriggerDirectSteps: one change per hop, ending at
\* the first step that is not direct
RECURSIVE directChain(_, _, _, _)
directChain(t, from, to, target) ==
    LET t1 == addChanged(t, changedCtx(from, to, target, 0))
    IN IF ~isDirectStep(to)
       THEN [tran |-> t1, to |-> to]
       ELSE directChain(t1, to, directSteps(to), target)

\* transaction.maybeTriggerDirectSteps
maybeTriggerDirectSteps(t, idx, ctx) ==
    IF ~isDirectStep(ctx.to)
    THEN t
    ELSE LET walk == directChain(t, ctx.to, directSteps(ctx.to), ctx.who)
             t1 == removeFromStep(walk.tran, idx, ctx.who).tran
         IN IF \E i \in 1..NSteps : w.states[i].name = walk.to
            THEN LET i == CHOOSE k \in 1..NSteps :
                              /\ w.states[k].name = walk.to
                              /\ \A j \in 1..(k - 1) : w.states[j].name # walk.to
                 IN moveToStep(t1, i, ctx.who).tran
            ELSE t1

\* the loop of transaction.stepChanged over w.state.States
RECURSIVE stepChangedLoop(_, _, _)
stepChangedLoop(t, ctx, idx) ==
    IF idx > NSteps
    THEN t
    ELSE IF w.states[idx].name = ctx.from
    THEN stepChangedLoop(removeFromStep(t, idx, ctx.who).tran, ctx, idx + 1)
    ELSE IF w.states[idx].name = ctx.to
    THEN LET r == moveToStep(t, idx, ctx.who)
             c == [ctx EXCEPT !.ttl = w.states[idx].ttl]
         IN IF r.changed
            THEN stepChangedLoop(
                     maybeTriggerDirectSteps(addChanged(r.tran, c), idx, c),
                     c, idx + 1)
            ELSE stepChangedLoop(r.tran, c, idx + 1)
    ELSE stepChangedLoop(t, ctx, idx + 1)

\* a stepChanged that takes the bulk users as they come
stepChangedUnscoped(t, ctx) == stepChangedLoop(t, ctx, 1)

\* transaction.stepChanged
stepChanged(t, ctx) ==
    LET c == IF ctx.who.bulk
             THEN [ctx EXCEPT !.who.users = @ \cap t.totalCrowds]
             ELSE ctx
    IN stepChangedLoop(t, c, 1)


-----------------------------------------------------------------------------
(* The step evaluator (Execute of a step's execution) is outside the        *)
(* The step evaluator: its answer for one call is an input of the model.    *)
(*   "stay"  - no transition reported                                       *)
(*   "move"  - stepChanged(from = the step, to = the step's target)         *)
(*   "error" - Execute returned an error                                    *)

Outcomes == {"stay", "move", "error"}

\* index of the first step crowd that contains the user, 0 when none does
\* (the `for idx, crowd := range tran.stepCrowds` scan of doStepUserEvents)
firstCrowdWith(t, u) ==
    IF \E i \in 1..Len(t.stepCrowds) : u \in t.stepCrowds[i]
    THEN CHOOSE i \in 1..Len(t.stepCrowds) :
             /\ u \in t.stepCrowds[i]
             /\ \A j \in 1..(i - 1) : u \notin t.stepCrowds[j]
    ELSE 0

\* Execute of step idx for `target`, with the evaluator's answer given
Execute(t, idx, target, outcome) ==
    IF outcome = "error"
    THEN [t EXCEPT !.err = TRUE]
    ELSE IF outcome = "move" /\ w.states[idx].next # NoStep
    THEN stepChanged(t, changedCtx(w.states[idx].name, w.states[idx].next,
                                   target, 0))
    ELSE t

\* the event loop of transaction.doStepUserEvents; a result carries the
\* transaction and whether the goroutine panicked on w.state.States[idx]
RECURSIVE userEventsLoop(_, _, _)
userEventsLoop(t, events, k) ==
    IF k > Len(events)
    THEN [tran |-> t, panic |-> FALSE]
    ELSE LET idx == firstCrowdWith(t, events[k].user)
         IN IF idx = 0
            THEN userEventsLoop(t, events, k + 1)
            ELSE IF idx > NSteps
            THEN [tran |-> t, panic |-> TRUE]
            ELSE LET t1 == Execute(t, idx, WhoUser(events[k].user),
                                   events[k].outcome)
                 IN IF t1.err
                    THEN [tran |-> t1, panic |-> FALSE]
                    ELSE userEventsLoop(t1, events, k + 1)

\* a handler that goes on after an evaluator error
abortedNever(t) == FALSE

\* `if tran.err != nil { return }` of the three handlers
aborted(t) == t.err

\* transaction.doStepUserEvents
doStepUserEvents(t, item) ==
    LET t1 == IF item.cb # 0 THEN [t EXCEPT !.cbs = Append(@, item.cb)] ELSE t
    IN IF aborted(t1)
       THEN [tran |-> t1, panic |-> FALSE]
       ELSE userEventsLoop(t1, item.events, 1)

\* transaction.doStepTimerEvent
doStepTimerEvent(t, idx, outcome, users) ==
    IF aborted(t)
    THEN t
    ELSE IF w.states[idx].type # Timer
    THEN t
    ELSE Execute(t, idx, WhoUsers(users), outcome)

\* transaction.doUpdateCrowd: the loop runs over every entry of stepCrowds
doUpdateCrowd(t, item) ==
    LET t1 == IF item.cb # 0 THEN [t EXCEPT !.cbs = Append(@, item.cb)] ELSE t
    IN IF aborted(t1)
       THEN t1
       ELSE LET newTotal == item.crowd
                newAdded == newTotal \ t1.totalCrowds
            IN [t1 EXCEPT
                   !.totalCrowds = newTotal,
                   !.stepCrowds =
                       [i \in 1..Len(t1.stepCrowds) |->
                           IF i = 1
                           THEN (t1.stepCrowds[i] \cup newAdded) \cap newTotal
                           ELSE t1.stepCrowds[i] \cap newTotal],
                   !.crowdChanged = TRUE]

\* transaction.reset: the step crowds are dropped only when changes exist
reset(t) ==
    [totalCrowds |-> {},
     stepCrowds |-> IF Len(t.changes) > 0 THEN <<>> ELSE t.stepCrowds,
     err |-> FALSE, cbs |-> <<>>, changes |-> <<>>, crowdChanged |-> FALSE]

-----------------------------------------------------------------------------
(* The worker loop around the transaction *)

\* the worker takes over the transaction's crowds when its tick committed
completeTick(t) ==
    IF t.err \/ ~t.crowdChanged
    THEN w
    ELSE [w EXCEPT !.totalCrowds = t.totalCrowds,
                   !.stepCrowds = SubSeq(t.stepCrowds, 1, NSteps)]

\* a worker loaded with a workflow and the crowds of its shard
TranLoaded ==
    /\ \E wf \in Workflows :
       \E place \in [ShardUsers -> 0..Len(wf)] :
          w = [states |-> wf,
               totalCrowds |-> {u \in ShardUsers : place[u] # 0},
               stepCrowds |-> [i \in 1..Len(wf) |->
                                  {u \in ShardUsers : place[u] = i}]]
    /\ tran = newTransaction
    /\ tick = "idle"
    /\ nops = 0
    /\ nticks = 0
    /\ wpanic = FALSE
    /\ nlate = 0
    /\ chainWalk = NoWalk

TickStart ==
    /\ tick = "idle"
    /\ ~wpanic
    /\ nticks < MaxTicks
    /\ tran' = start(tran)
    /\ tick' = "open"
    /\ nops' = 0
    /\ nticks' = nticks + 1
    /\ nlate' = 0
    /\ UNCHANGED <<w, wpanic, chainWalk>>
    /\ UNCHANGED <<engVars, queueVars, routeVars, regVars, loadVars, stopVars>>

EventItems ==
    { [cb |-> cb, events |-> evs] :
        cb \in {0, 1},
        evs \in UNION { [1..n -> [user : AllUsers, outcome : Outcomes]] :
                          n \in 1..MaxEvents } }

DoStepUserEvents ==
    /\ tick = "open"
    /\ ~wpanic
    /\ nops < MaxOps
    /\ \E item \in EventItems :
          LET r == doStepUserEvents(tran, item)
          IN /\ tran' = r.tran
             /\ wpanic' = r.panic
    /\ nops' = nops + 1
    /\ w' = workerSees(tran, tran')
    /\ nlate' = IF tran.err THEN nlate + 1 ELSE nlate
    /\ UNCHANGED <<tick, nticks, chainWalk>>
    /\ UNCHANGED <<engVars, queueVars, routeVars, regVars, loadVars, stopVars>>

\* the evaluator of a timer step selects users of the step's crowd; the
\* crowd it filters spans the whole instance, so users of other shards
\* may come with them
DoStepTimerEvent ==
    /\ tick = "open"
    /\ ~wpanic
    /\ nops < MaxOps
    /\ \E idx \in 1..NSteps, outcome \in Outcomes :
       \E users \in SUBSET (tran.stepCrowds[idx] \cup {ForeignUser}) :
          tran' = doStepTimerEvent(tran, idx, outcome, users)
    /\ nops' = nops + 1
    /\ w' = workerSees(tran, tran')
    /\ nlate' = IF tran.err THEN nlate + 1 ELSE nlate
    /\ UNCHANGED <<tick, nticks, wpanic, chainWalk>>
    /\ UNCHANGED <<engVars, queueVars, routeVars, regVars, loadVars, stopVars>>

DoUpdateCrowd ==
    /\ tick = "open"
    /\ ~wpanic
    /\ nops < MaxOps
    /\ \E cb \in {0, 1}, crowd \in SUBSET ShardUsers :
          tran' = doUpdateCrowd(tran, [cb |-> cb, crowd |-> crowd])
    /\ nops' = nops + 1
    /\ w' = workerSees(tran, tran')
    /\ nlate' = IF tran.err THEN nlate + 1 ELSE nlate
    /\ UNCHANGED <<tick, nticks, wpanic, chainWalk>>
    /\ UNCHANGED <<engVars, queueVars, routeVars, regVars, loadVars, stopVars>>

TickEnd ==
    /\ tick = "open"
    /\ ~wpanic
    /\ w' = completeTick(tran)
    /\ tran' = reset(tran)
    /\ tick' = "idle"
    /\ nops' = 0
    /\ nlate' = 0
    /\ UNCHANGED <<nticks, wpanic, chainWalk>>
    /\ UNCHANGED <<engVars, queueVars, routeVars, regVars, loadVars, stopVars>>

-----------------------------------------------------------------------------
(* The engine controller and the store behind it, for one workflow.         *)

CrowdUsers == 1..MaxCrowdUser
\* step names of the workflow, in the order of Workflow.Steps
EngSteps == <<"A", "B">>
NEngSteps == Len(EngSteps)
\* the versions of the workflow definition UpdateWorkflow may install, and
\* the one an instance starts with
WorkflowVersions == 1..MaxVersions
FirstVersion == CHOOSE v \in WorkflowVersions : \A x \in WorkflowVersions : v <= x
ShardIdx == 0..(MaxWorkers - 1)
InstanceIDs == 1..MaxInstances

Starting == "Starting"
Running == "Running"
Stopping == "Stopping"
Stopped == "Stopped"

NoInstance ==
    [state |-> "None", instanceID |-> 0, totalCrowd |-> 0, workers |-> 0,
     snapshot |-> 0]
NoSnapshot == [state |-> "None", instanceID |-> 0, states |-> <<>>]
NoBitmap == [present |-> FALSE, bm |-> {}]

\* metapb.WorkflowInstance as StartInstance builds it; Loader/LoaderMeta
\* point at the bitmap stored under the instance's crowd key
WorkflowInstance(id, wf, total, nw) ==
    [state |-> Starting, instanceID |-> id, totalCrowd |-> total,
     workers |-> nw, snapshot |-> wf]

\* storage events
Event(type, instance, index) ==
    [type |-> type, instance |-> instance, index |-> index,
     deadline |-> "none"]

\* eng.loadBM of an instance's crowd: fails when the shard bitmaps are gone
canLoadBM(inst) ==
    inst.instanceID \in InstanceIDs /\ bitmaps[inst.instanceID].present

loadBM(inst) == bitmaps[inst.instanceID].bm

\* a StartInstance that forgot the previous instance's crowd
startCrowdKeepsAll(bm, old) == bm

\* the crowd StartInstance keeps: bm.AndNot(oldBM) when a stopped instance
\* exists, the loaded crowd otherwise
startCrowd(bm, old) ==
    IF old.state = "None" THEN bm ELSE bm \ loadBM(old)

\* util.BMSplit: n runs of consecutive members, ceil(N/n) members a run
Rank(bm, u) == Cardinality({v \in bm : v <= u})

BMSplit(bm, n) ==
    LET size == (Cardinality(bm) + n - 1) \div n
    IN [i \in 1..n |->
           {u \in bm : Rank(bm, u) > (i - 1) * size /\ Rank(bm, u) <= i * size}]

\* the WorkflowInstanceWorkerState doStartInstanceEvent writes for a shard:
\* the whole shard crowd sits in step 0
newWorkerState(bm) ==
    [i \in 1..NEngSteps |-> IF i = 1 THEN bm ELSE {}]

-----------------------------------------------------------------------------
(* The store's replicated commands.  Each is a state-transition verb that   *)
(* does nothing when the instance is not in the state it starts from.       *)

cmdStarting(c, inst) ==
    IF c.state \in {"None", Stopped} THEN [inst EXCEPT !.state = Starting] ELSE c

cmdStarted(c) ==
    IF c.state = Starting THEN [c EXCEPT !.state = Running] ELSE c

cmdStop(c) ==
    IF c.state = Running THEN [c EXCEPT !.state = Stopping] ELSE c

cmdStopped(c) ==
    IF c.state = Stopping THEN [c EXCEPT !.state = Stopped] ELSE c

cmdUpdateWorkflow(c, wf) ==
    IF c.state = Running THEN [c EXCEPT !.snapshot = wf] ELSE c

\* the event a command leaves on the stream when it changed the instance
emit(evC, before, after, type) ==
    IF before # after THEN Append(evC, Event(type, after, 0)) ELSE evC

-----------------------------------------------------------------------------
(* API calls *)

\* what the last step's API call was given and what it returned
NoCall ==
    [op |-> "none", err |-> FALSE, submitted |-> FALSE, applied |-> FALSE,
     crowdIn |-> {}]

Call(op, err) == [NoCall EXCEPT !.op = op, !.err = err]

StartFailures == {"none", "read", "loadOld", "allocID", "putBM", "exec"}

\* a StartInstance that starts over whatever instance it finds
lastNotStoppedIgnored(old) == FALSE

\* a StartInstance that rejects the call when the last instance is not stopped
errLastNotStoppedRejected == TRUE

\* the instance StartInstance found is in the way of a new one
lastNotStopped(old) == old.state # "None" /\ old.state # Stopped

\* whether StartInstance returns an error after it logged that the last
\* instance is not stopped: it returns nil
errLastNotStopped == FALSE

\* engine.StartInstance up to its return; `fail` names the call that
\* returns an error ("read": checkExcution, the crowd load or loadInstance)
startInstance(old, crowdIn, nw, wf, fail) ==
    LET bm == startCrowd(crowdIn, old)
        inst == WorkflowInstance(nextID, wf, Cardinality(bm), nw)
        res(err, alloc, put, exec) ==
            [err |-> err, alloc |-> alloc, put |-> put, exec |-> exec,
             bm |-> bm, inst |-> inst]
    IN IF fail = "read" THEN res(TRUE, FALSE, FALSE, FALSE)
       ELSE IF lastNotStopped(old)
       THEN res(errLastNotStopped, FALSE, FALSE, FALSE)
       ELSE IF old.state = Stopped /\ (fail = "loadOld" \/ ~canLoadBM(old))
       THEN res(TRUE, FALSE, FALSE, FALSE)
       ELSE IF fail = "allocID" THEN res(TRUE, FALSE, FALSE, FALSE)
       ELSE IF fail = "putBM" THEN res(TRUE, TRUE, FALSE, FALSE)
       ELSE IF fail = "exec" THEN res(TRUE, TRUE, TRUE, FALSE)
       ELSE res(FALSE, TRUE, TRUE, TRUE)

\* the crowds and worker counts StartInstance is called with; where the
\* call returns before it uses them, one value stands for all
CanStart == cur.state \in {"None", Stopped} /\ nextID <= MaxInstances

StartCrowds == IF CanStart THEN SUBSET CrowdUsers ELSE {{}}

StartWorkers == IF CanStart THEN 1..MaxWorkers ELSE {1}

StartInstance ==
    /\ ~engFatal
    /\ \E crowdIn \in StartCrowds, nw \in StartWorkers,
          fail \in StartFailures :
          LET r == startInstance(cur, crowdIn, nw, FirstVersion, fail)
              after == IF r.exec THEN cmdStarting(cur, r.inst) ELSE cur
          IN /\ r.alloc => nextID <= MaxInstances
             /\ nextID' = IF r.alloc THEN nextID + 1 ELSE nextID
             /\ bitmaps' = IF r.put
                           THEN [bitmaps EXCEPT ![nextID] =
                                    [present |-> TRUE, bm |-> r.bm]]
                           ELSE bitmaps
             /\ cur' = after
             /\ eventC' = emit(eventC, cur, after, "StartingInstance")
             /\ call' = [Call("StartInstance", r.err) EXCEPT
                            !.submitted = r.put,
                            !.applied = r.exec,
                            !.crowdIn = IF r.put THEN crowdIn ELSE {}]
    /\ UNCHANGED <<shards, history, inputQ, retryNewInstanceC,
                   retryStoppingInstanceC, retryCompleteInstanceC, workers,
                   gc, engFatal, agg, nfail, tranVars, queueVars,
                   routeVars, regVars, loadVars, stopVars>>

\* a StopInstance that does not look at what it read
stopSubmitsUnseen(c, fail) == fail # "get"

\* engine.StopInstance hands a StopInstanceRequest to the store when it
\* read the current-instance key and found a value
stopSubmits(c, fail) == fail # "get" /\ c.state # "None"

\* engine.StopInstance
StopInstance ==
    /\ ~engFatal
    /\ \E fail \in {"none", "get", "exec"} :
          LET submit == stopSubmits(cur, fail)
              after == IF submit /\ fail = "none" THEN cmdStop(cur) ELSE cur
          IN /\ cur' = after
             /\ eventC' = emit(eventC, cur, after, "StoppingInstance")
             /\ call' = [Call("StopInstance",
                              fail = "get" \/ (submit /\ fail = "exec")) EXCEPT
                            !.submitted = submit,
                            !.applied = submit /\ fail = "none"]
    /\ UNCHANGED <<nextID, bitmaps, shards, history, inputQ,
                   retryNewInstanceC, retryStoppingInstanceC,
                   retryCompleteInstanceC, workers, gc, engFatal, agg, nfail,
                   tranVars, queueVars, routeVars, regVars, loadVars, stopVars>>

\* engine.UpdateWorkflow; "read": checkExcution or loadInstance fails
UpdateWorkflow ==
    /\ ~engFatal
    /\ \E wf \in WorkflowVersions, fail \in {"none", "read", "exec", "put"} :
          LET running == fail # "read" /\ cur.state = Running
              rewrite == running /\ fail # "exec"
              enqueue == rewrite /\ fail # "put"
          IN /\ enqueue => Len(inputQ) < MaxInputQ
             /\ cur' = IF rewrite THEN cmdUpdateWorkflow(cur, wf) ELSE cur
             /\ inputQ' = IF enqueue
                          THEN Append(inputQ, [type |-> "UpdateWorkflow",
                                               workflow |-> wf])
                          ELSE inputQ
             /\ call' = [Call("UpdateWorkflow", ~enqueue) EXCEPT
                            !.submitted = running,
                            !.applied = rewrite]
    /\ UNCHANGED <<nextID, bitmaps, shards, history, eventC,
                   retryNewInstanceC, retryStoppingInstanceC,
                   retryCompleteInstanceC, workers, gc, engFatal, agg, nfail,
                   tranVars, queueVars, routeVars, regVars, loadVars, stopVars>>

\* engine.HistoryInstance: the snapshot stored for the instance, nil
\* (NoSnapshot) when there is none, an error when the read fails
HistoryInstance(iid, fail) ==
    [err |-> fail, snap |-> IF fail THEN NoSnapshot ELSE history[iid]]

\* engine.getInstanceWorkers: the shard states found between index 0 and
\* instance.Workers
getInstanceWorkers(nw) ==
    {i \in ShardIdx : i < nw /\ shards[i] # <<>>}

RECURSIVE SumCard(_, _)
SumCard(idxs, step) ==
    IF idxs = {} THEN 0
    ELSE LET i == CHOOSE k \in idxs : TRUE
         IN Cardinality(shards[i][step]) + SumCard(idxs \ {i}, step)

\* agg: 0, or instance.Workers of the instance an aggregation query loaded
NoAgg == 0

\* InstanceCountState / InstanceStepState up to loadRunningInstance
AggLoad ==
    /\ ~engFatal
    /\ agg = NoAgg
    /\ \E op \in {"InstanceCountState", "InstanceStepState"}, fail \in BOOLEAN :
          IF fail \/ cur.state # Running
          THEN /\ call' = Call(op, TRUE)
               /\ agg' = agg
          ELSE /\ agg' = cur.workers
               /\ call' = NoCall
    /\ UNCHANGED <<storeVars, retryNewInstanceC, retryStoppingInstanceC,
                   retryCompleteInstanceC, workers, gc, engFatal, nfail,
                   tranVars, queueVars, routeVars, regVars, loadVars, stopVars>>

\* what InstanceCountState returns over the shard states found
countState(found) == [k \in 1..NEngSteps |-> SumCard(found, k)]

\* what InstanceStepState returns for a step over the shard states found
stepState(found, step) == UNION {shards[i][step] : i \in found}

\* the rest of the call: getInstanceWorkers and the aggregation over the
\* shard states it returned
AggScan ==
    /\ ~engFatal
    /\ agg # NoAgg
    /\ \E op \in {"InstanceCountState", "InstanceStepState"}, fail \in BOOLEAN :
          call' = Call(op, fail)
    /\ agg' = NoAgg
    /\ UNCHANGED <<storeVars, retryNewInstanceC, retryStoppingInstanceC,
                   retryCompleteInstanceC, workers, gc, engFatal, nfail,
                   tranVars, queueVars, routeVars, regVars, loadVars, stopVars>>

-----------------------------------------------------------------------------
(* The controller: engine.handleEvent and the handlers it dispatches to.    *)
(* `fail` names the store call of the handler that returns an error and    *)
(* `k` the shard index it happens at.                                      *)

Failing(fail) == IF fail = "none" THEN nfail ELSE nfail + 1

\* the loop of doStartInstanceEvent over the shards below index n: a
\* CreateInstanceStateShard command per shard, which creates the state and
\* raises RunningInstanceWorker unless the state is already there
RECURSIVE createShards(_, _, _, _, _)
createShards(sh, evC, bms, i, n) ==
    IF i >= n THEN [shards |-> sh, eventC |-> evC]
    ELSE IF sh[i] # <<>> THEN createShards(sh, evC, bms, i + 1, n)
    ELSE createShards([sh EXCEPT ![i] = newWorkerState(bms[i + 1])],
                      Append(evC, Event("RunningInstanceWorker", NoInstance, i)),
                      bms, i + 1, n)

\* the loop of doStoppingInstanceEvent: a RemoveInstanceStateShard command
\* per shard below index n
RECURSIVE removeShards(_, _, _, _)
removeShards(sh, evC, i, n) ==
    IF i >= n THEN [shards |-> sh, eventC |-> evC]
    ELSE IF sh[i] = <<>> THEN removeShards(sh, evC, i + 1, n)
    ELSE removeShards([sh EXCEPT ![i] = <<>>],
                      Append(evC, Event("RemoveInstanceWorker", NoInstance, i)),
                      i + 1, n)

\* engine.doCreateInstanceStateShardComplete
doCreateInstanceStateShardComplete(evC, rcC, failed) ==
    LET after == IF failed THEN cur ELSE cmdStarted(cur)
    IN /\ cur' = after
       /\ eventC' = emit(evC, cur, after, "RunningInstance")
       /\ retryCompleteInstanceC' = IF failed THEN Append(rcC, 1) ELSE rcC

\* engine.doStartInstanceEvent
doStartInstanceEvent(inst, evC, rnC) ==
    \E fail \in {"none", "loadBM", "create", "complete"},
       k \in 0..(inst.workers - 1) :
       /\ Failing(fail) <= MaxFail
       /\ nfail' = Failing(fail)
       /\ IF fail = "loadBM" \/ ~canLoadBM(inst)
          THEN /\ retryCompleteInstanceC' = Append(retryCompleteInstanceC, 1)
               /\ retryNewInstanceC' = rnC
               /\ eventC' = evC
               /\ UNCHANGED <<cur, shards>>
          ELSE LET n == IF fail = "create" THEN k ELSE inst.workers
                   r == createShards(shards, evC,
                                     BMSplit(loadBM(inst), inst.workers), 0, n)
               IN /\ shards' = r.shards
                  /\ IF fail = "create"
                     THEN /\ retryNewInstanceC' = Append(rnC, inst)
                          /\ eventC' = r.eventC
                          /\ UNCHANGED <<cur, retryCompleteInstanceC>>
                     ELSE /\ retryNewInstanceC' = rnC
                          /\ doCreateInstanceStateShardComplete(
                                 r.eventC, retryCompleteInstanceC,
                                 fail = "complete")
       /\ call' = NoCall
       /\ UNCHANGED <<nextID, bitmaps, history, inputQ,
                      retryStoppingInstanceC, workers, gc, engFatal, agg,
                      tranVars, queueVars, routeVars, regVars, loadVars, stopVars>>

\* engine.buildSnapshot: per step of the workflow, the union of that step's
\* crowd over the shard states found
buildSnapshot(inst) ==
    [state |-> Stopped, instanceID |-> inst.instanceID,
     states |-> [s \in 1..NEngSteps |->
                    UNION {shards[i][s] : i \in getInstanceWorkers(inst.workers)}]]

\* a save that writes nothing
doSaveSnapshotSkipped(inst) == history

\* a save that rebuilds the snapshot on every attempt
doSaveSnapshotOverwrites(inst) ==
    [history EXCEPT ![inst.instanceID] = buildSnapshot(inst)]

\* engine.doSaveSnapshot: the history written unless one is already there
doSaveSnapshot(inst) ==
    IF history[inst.instanceID].state # "None" THEN history
    ELSE [history EXCEPT ![inst.instanceID] = buildSnapshot(inst)]

\* engine.doStoppingInstanceEvent with doInstanceStoppingComplete and
\* doRetryStoppingInstance
doStoppingInstanceEvent(inst, evC, rsC) ==
    \E fail \in {"none", "save", "remove", "complete"},
       k \in 0..(inst.workers - 1) :
       /\ Failing(fail) <= MaxFail
       /\ nfail' = Failing(fail)
       /\ IF fail = "save"
          THEN /\ retryStoppingInstanceC' = Append(rsC, inst)
               /\ eventC' = evC
               /\ UNCHANGED <<cur, shards, history, gc>>
          ELSE LET n == IF fail = "remove" THEN k ELSE inst.workers
                   r == removeShards(shards, evC, 0, n)
                   after == IF fail = "none" THEN cmdStopped(cur) ELSE cur
               IN /\ history' = doSaveSnapshot(inst)
                  /\ shards' = r.shards
                  /\ cur' = after
                  /\ eventC' = emit(r.eventC, cur, after, "StoppedInstance")
                  /\ retryStoppingInstanceC' =
                         IF fail = "none" THEN rsC ELSE Append(rsC, inst)
                  /\ gc' = IF fail = "none" THEN gc \cup {inst.instanceID}
                           ELSE gc
       /\ call' = NoCall
       /\ UNCHANGED <<nextID, bitmaps, inputQ, retryNewInstanceC,
                      retryCompleteInstanceC, workers, engFatal, agg,
                      tranVars, queueVars, routeVars, regVars, loadVars, stopVars>>

HeadIs(type) == eventC # <<>> /\ Head(eventC).type = type

\* doEvent, case StartingInstanceEvent
HandleStartingInstance ==
    /\ ~engFatal
    /\ HeadIs("StartingInstance")
    /\ doStartInstanceEvent(Head(eventC).instance, Tail(eventC),
                            retryNewInstanceC)

\* handleEvent, case retryNewInstanceC
RetryNewInstance ==
    /\ ~engFatal
    /\ retryNewInstanceC # <<>>
    /\ doStartInstanceEvent(Head(retryNewInstanceC), eventC,
                            Tail(retryNewInstanceC))

\* handleEvent, case retryCompleteInstanceC
RetryCompleteInstance ==
    /\ ~engFatal
    /\ retryCompleteInstanceC # <<>>
    /\ \E failed \in BOOLEAN :
          /\ Failing(IF failed THEN "complete" ELSE "none") <= MaxFail
          /\ nfail' = Failing(IF failed THEN "complete" ELSE "none")
          /\ doCreateInstanceStateShardComplete(
                 eventC, Tail(retryCompleteInstanceC), failed)
    /\ call' = NoCall
    /\ UNCHANGED <<nextID, bitmaps, shards, history, inputQ,
                   retryNewInstanceC, retryStoppingInstanceC, workers, gc,
                   engFatal, agg, tranVars, queueVars, routeVars, regVars, loadVars, stopVars>>

\* doEvent, case RunningInstanceEvent: doStartedInstanceEvent of a workflow
\* without Duration only logs
HandleRunningInstance ==
    /\ ~engFatal
    /\ HeadIs("RunningInstance")
    /\ eventC' = Tail(eventC)
    /\ call' = NoCall
    /\ UNCHANGED <<cur, nextID, bitmaps, shards, history, inputQ,
                   retryNewInstanceC, retryStoppingInstanceC,
                   retryCompleteInstanceC, workers, gc, engFatal, agg,
                   nfail, tranVars, queueVars, routeVars, regVars, loadVars, stopVars>>

\* doEvent, case StoppingInstanceEvent
HandleStoppingInstance ==
    /\ ~engFatal
    /\ HeadIs("StoppingInstance")
    /\ doStoppingInstanceEvent(Head(eventC).instance, Tail(eventC),
                               retryStoppingInstanceC)

\* handleEvent, case retryStoppingInstanceC
RetryStoppingInstance ==
    /\ ~engFatal
    /\ retryStoppingInstanceC # <<>>
    /\ doStoppingInstanceEvent(Head(retryStoppingInstanceC), eventC,
                               Tail(retryStoppingInstanceC))

\* doEvent, case StoppedInstanceEvent: doStoppedInstanceEvent stops every
\* worker of the workflow
HandleStoppedInstance ==
    /\ ~engFatal
    /\ HeadIs("StoppedInstance")
    /\ eventC' = Tail(eventC)
    /\ workers' = {}
    /\ call' = NoCall
    /\ UNCHANGED <<cur, nextID, bitmaps, shards, history, inputQ,
                   retryNewInstanceC, retryStoppingInstanceC,
                   retryCompleteInstanceC, gc, engFatal, agg, nfail,
                   tranVars, queueVars, routeVars, regVars, loadVars, stopVars>>

\* a registry lookup that never finds the key
registeredNever(ws, key) == FALSE

\* eng.workers.Load(w.key) in doStartInstanceStateEvent
registered(ws, key) == key \in ws

\* doEvent, case RunningInstanceWorkerEvent: doStartInstanceStateEvent.  A
\* key that is still registered is fatal; a state whose StopAt has passed
\* gets no worker; otherwise the worker is stored and run, and a state with
\* a StopAt schedules stopWorker for it
HandleRunningInstanceWorker ==
    /\ ~engFatal
    /\ HeadIs("RunningInstanceWorker")
    /\ eventC' = Tail(eventC)
    /\ LET ev == Head(eventC)
       IN IF registered(workers, ev.index)
          THEN engFatal' = TRUE /\ UNCHANGED <<workers, timers>>
          ELSE /\ engFatal' = engFatal
               /\ IF ev.deadline = "past"
                  THEN UNCHANGED <<workers, timers>>
                  ELSE /\ workers' = workers \cup {ev.index}
                       /\ timers' = IF ev.deadline = "future"
                                    THEN [timers EXCEPT ![ev.index] = @ + 1]
                                    ELSE timers
    /\ call' = NoCall
    /\ UNCHANGED <<cur, nextID, bitmaps, shards, history, inputQ,
                   retryNewInstanceC, retryStoppingInstanceC,
                   retryCompleteInstanceC, gc, agg, nfail, tranVars, queueVars,
                   routeVars, loadVars, stopVars>>

\* doEvent, case RemoveInstanceWorkerEvent: doInstanceStateRemovedEvent
HandleRemoveInstanceWorker ==
    /\ ~engFatal
    /\ HeadIs("RemoveInstanceWorker")
    /\ eventC' = Tail(eventC)
    /\ workers' = workers \ {Head(eventC).index}
    /\ call' = NoCall
    /\ UNCHANGED <<cur, nextID, bitmaps, shards, history, inputQ,
                   retryNewInstanceC, retryStoppingInstanceC,
                   retryCompleteInstanceC, gc, engFatal, agg, nfail,
                   tranVars, queueVars, routeVars, regVars, loadVars, stopVars>>

\* the goroutine doRemoveShardBitmaps: the instance's crowd, stored by
\* putBM as shard bitmaps (KVShardLoader), is deleted from the store; a
\* failed delete is only logged
RemoveShardBitmaps ==
    /\ ~engFatal
    /\ \E id \in gc, deleted \in BOOLEAN :
          /\ gc' = gc \ {id}
          /\ bitmaps' = IF deleted
                        THEN [bitmaps EXCEPT ![id].present = FALSE]
                        ELSE bitmaps
    /\ call' = NoCall
    /\ UNCHANGED <<cur, nextID, shards, history, inputQ, eventC,
                   retryNewInstanceC, retryStoppingInstanceC,
                   retryCompleteInstanceC, workers, engFatal, agg, nfail,
                   tranVars, queueVars, routeVars, regVars, loadVars, stopVars>>

\* a registered state worker commits a tick that moved user u from step
\* `from` to the step after it
WorkerTick ==
    /\ ~engFatal
    /\ \E i \in workers, from \in 1..(NEngSteps - 1) :
          /\ shards[i] # <<>>
          /\ \E u \in shards[i][from] :
                shards' = [shards EXCEPT
                              ![i][from] = @ \ {u},
                              ![i][from + 1] = @ \cup {u}]
    /\ call' = NoCall
    /\ UNCHANGED <<cur, nextID, bitmaps, history, inputQ, eventC,
                   retryNewInstanceC, retryStoppingInstanceC,
                   retryCompleteInstanceC, workers, gc, engFatal, agg,
                   nfail, tranVars, queueVars, routeVars, regVars, loadVars, stopVars>>

-----------------------------------------------------------------------------
(* The queue append batch (queueBatch) of one partition.                    *)

countToClean == 4096
maxConsumerAlive == 7 * 24 * 60 * 60

\* stands for math.MaxUint64, the top of the offsets' range: above every
\* offset of the model, and Inc64 wraps to 0 there
MaxUint64 == 2147483647

Inc64(x) == IF x = MaxUint64 THEN 0 ELSE x + 1

Groups == 1..MaxGroups
NoConsumer == [present |-> FALSE, v |-> 0, ts |-> 0, req |-> 0]

\* len(maxAndCleanOffsetValue) as newQueueBatch makes it
ValueLen == 16

NoItems == [o \in {} |-> 0]

\* newQueueBatch
newQueueBatch ==
    [loaded |-> FALSE, maxOffset |-> 0, removedOffset |-> 0,
     valueLen |-> ValueLen, pairs |-> <<>>, resps |-> <<>>]

\* queueBatch.reset: the value slice is cut to length 0
qreset(b) ==
    [loaded |-> FALSE, maxOffset |-> 0, removedOffset |-> 0,
     valueLen |-> 0, pairs |-> <<>>, resps |-> <<>>]

\* a batch that gave every item the offset it loaded
sameOffset(maxOffset) == maxOffset

\* qb.maxOffset++ in queueBatch.add
nextOffset(maxOffset) == maxOffset + 1

\* the loop of queueBatch.add over the request's items
RECURSIVE addItems(_, _, _)
addItems(b, first, n) ==
    IF n = 0 THEN b
    ELSE LET off == nextOffset(b.maxOffset)
         IN addItems([b EXCEPT !.maxOffset = off,
                               !.pairs = Append(@, [off |-> off, item |-> first])],
                     first + 1, n - 1)

\* the load of queueBatch.add panics when the stored value is decoded from
\* a value slice shorter than the two offsets
loadPanics(b) == ~b.loaded /\ qs.has /\ b.valueLen < ValueLen

\* queueBatch.add, first part: load the offsets once per batch
load(b) ==
    IF b.loaded THEN b
    ELSE IF qs.has
    THEN [b EXCEPT !.loaded = TRUE, !.maxOffset = qs.max,
                   !.removedOffset = qs.removed]
    ELSE [b EXCEPT !.loaded = TRUE]

\* queueBatch.addReq: add, then the response with qb.maxOffset
addReq(b, first, n) ==
    LET added == addItems(load(b), first, n)
    IN [added EXCEPT !.resps =
           Append(@, [value |-> added.maxOffset, pairs |-> Len(added.pairs),
                      items |-> n])]

\* batch.Add of a QueueAdd request with n items
QueueAdd ==
    /\ ~qdown
    /\ qphase = "open"
    /\ \E n \in 1..MaxReqItems, getFails \in BOOLEAN :
          /\ nsub + n <= MaxQItems
          /\ IF (getFails /\ ~qb.loaded) \/ loadPanics(qb)
             THEN /\ qdown' = TRUE
                  /\ UNCHANGED <<qb, nsub>>
             ELSE /\ qb' = addReq(qb, nsub + 1, n)
                  /\ nsub' = nsub + n
                  /\ qdown' = qdown
    /\ UNCHANGED <<qs, consumers, now, qphase, tranVars, engVars, routeVars, regVars, loadVars, stopVars>>

\* a scan that counts every consumer group that ever committed
aliveWhenPresent(c) == c.present

\* a consumer group counts in the scan of queueBatch.exec
alive(c) == c.present /\ now - c.ts < maxConsumerAlive

Live == {g \in Groups : alive(consumers[g])}

\* a scan that kept the highest committed offset
RECURSIVE scanHigh(_, _)
scanHigh(gs, low) ==
    IF gs = {} THEN low
    ELSE LET g == CHOOSE x \in gs : TRUE
         IN scanHigh(gs \ {g},
                     IF alive(consumers[g])
                        /\ (low = MaxUint64 \/ consumers[g].v > low)
                     THEN consumers[g].v ELSE low)

\* the Scan of queueBatch.exec over the consumer groups' values
RECURSIVE scanLow(_, _)
scanLow(gs, low) ==
    IF gs = {} THEN low
    ELSE LET g == CHOOSE x \in gs : TRUE
         IN scanLow(gs \ {g},
                    IF alive(consumers[g]) /\ consumers[g].v < low
                    THEN consumers[g].v ELSE low)

\* queueBatch.exec runs the clean-up
cleans(b) ==
    b.maxOffset > 0 /\ b.maxOffset - b.removedOffset > countToClean

\* queueBatch.exec reaches RangeDelete and the log.Fatalf after it
deletes(b) == cleans(b) /\ scanLow(Groups, MaxUint64) > b.removedOffset

\* s.RangeDelete(from, to) on the items: they sit at the offsets
\* qs.low..qs.max, and every delete starts at or below qs.low
RangeDelete(from, to) ==
    IF from <= qs.low /\ to > qs.low
    THEN [qs EXCEPT !.low = to,
                    !.items = [o \in {x \in DOMAIN qs.items : x >= to} |->
                                  qs.items[o]]]
    ELSE qs

\* queueBatch.exec panics when it encodes the offsets into a value slice
\* shorter than the two offsets
encodePanics(b) == b.maxOffset > 0 /\ b.valueLen < ValueLen

\* the write batch queueBatch.exec fills, applied by s.Write to store st
Write(st, b) ==
    LET offs == {b.pairs[i].off : i \in 1..Len(b.pairs)}
        last(o) == CHOOSE i \in 1..Len(b.pairs) :
                       /\ b.pairs[i].off = o
                       /\ \A j \in 1..Len(b.pairs) :
                             b.pairs[j].off = o => j <= i
    IN [st EXCEPT
           !.has = @ \/ b.maxOffset > 0,
           !.max = IF b.maxOffset > 0 THEN b.maxOffset ELSE @,
           !.removed = IF b.maxOffset > 0 THEN b.removedOffset ELSE @,
           !.items = [o \in DOMAIN st.items \cup offs |->
                         IF o \in offs THEN b.pairs[last(o)].item
                         ELSE st.items[o]]]

\* a Fatalf after the range delete that is called on an error only
fatalOnError(err) == err

\* a Fatalf after the range delete that is never called
fatalNever(err) == FALSE

\* the log.Fatalf that follows s.RangeDelete in queueBatch.exec: it is
\* called whether err is nil or not, and ends the process
fatalAfterDelete(err) == TRUE

\* the store after the s.RangeDelete of queueBatch.exec, which acts on the
\* store at once and not through the write batch
afterDelete(b, delFails) ==
    IF deletes(b) /\ ~delFails
    THEN RangeDelete(b.removedOffset, Inc64(scanLow(Groups, MaxUint64)))
    ELSE qs

\* qb.removedOffset = low, the statement after the Fatalf
cleaned(b) ==
    IF deletes(b)
    THEN [b EXCEPT !.removedOffset = scanLow(Groups, MaxUint64)]
    ELSE b

\* batch.Execute: queueBatch.exec, then s.Write of the write batch.  The
\* phase tells how it ended: "executed" without an error, "failed" with
\* the error of s.Write
BatchExecute ==
    /\ ~qdown
    /\ qphase = "open"
    /\ \E writeFails, delFails \in BOOLEAN :
          /\ delFails => deletes(qb)
          /\ IF deletes(qb) /\ fatalAfterDelete(delFails)
             THEN /\ qs' = afterDelete(qb, delFails)
                  /\ qdown' = TRUE
                  /\ UNCHANGED <<qb, qphase>>
             ELSE IF encodePanics(qb)
             THEN /\ qs' = afterDelete(qb, delFails)
                  /\ qdown' = TRUE
                  /\ UNCHANGED <<qb, qphase>>
             ELSE /\ qb' = cleaned(qb)
                  /\ qs' = IF writeFails THEN afterDelete(qb, delFails)
                           ELSE Write(afterDelete(qb, delFails), cleaned(qb))
                  /\ qphase' = IF writeFails THEN "failed" ELSE "executed"
                  /\ UNCHANGED qdown
    /\ UNCHANGED <<consumers, now, nsub, tranVars, engVars, routeVars, regVars, loadVars, stopVars>>

\* batch.Reset: the batch object is used again
Reset ==
    /\ ~qdown
    /\ qb' = qreset(qb)
    /\ qphase' = "open"
    /\ UNCHANGED <<qs, consumers, now, qdown, nsub, tranVars, engVars,
                   routeVars, regVars, loadVars, stopVars>>

\* newBatch with newQueueBatch: a new batch object, also after the process
\* came up again
NewBatch ==
    /\ qb' = newQueueBatch
    /\ qphase' = "open"
    /\ qdown' = FALSE
    /\ UNCHANGED <<qs, consumers, now, nsub, tranVars, engVars, routeVars, regVars, loadVars, stopVars>>

\* the completed offsets a consumer group commits
CommitOffsets == {o \in {1, 2} : o <= qs.max}

\* a commit that stores whatever offset it is given
commitOverwrites(stored, completed) == completed

\* the committed offset after a QueueCommit: a completed offset that is not
\* above the stored one is ignored
commitOffset(stored, completed) ==
    IF completed > stored THEN completed ELSE stored

\* a consumer group commits an offset; `req` keeps the completed offset of
\* the group's last request, `ts` the time of it
QueueCommit ==
    /\ \E g \in Groups, o \in CommitOffsets :
          consumers' = [consumers EXCEPT ![g] =
                           [present |-> TRUE,
                            v |-> commitOffset(@.v, o),
                            ts |-> now,
                            req |-> o]]
    /\ UNCHANGED <<qs, now, qb, qphase, qdown, nsub, tranVars, engVars,
                   routeVars, regVars, loadVars, stopVars>>

\* the clock moves on by maxConsumerAlive: the groups that do not commit
\* again are abandoned
AdvanceClock ==
    /\ now < MaxClock * maxConsumerAlive
    /\ now' = now + maxConsumerAlive
    /\ UNCHANGED <<qs, consumers, qb, qphase, qdown, nsub, tranVars, engVars,
                   routeVars, regVars, loadVars, stopVars>>

-----------------------------------------------------------------------------
(* Event routing: the engine caches, for an instance, the range             *)
(* [Minimum, Maximum + 1) of every shard its crowd was split into, and Step *)
(* sends a user's event to the shard whose range holds the user.  User IDs  *)
(* are uint32; the model keeps the wrap-around of Maximum() + 1 on a        *)
(* narrower unsigned type.                                                  *)

\* the largest user ID (math.MaxUint32, here on a 2-bit unsigned type)
MaxUint32 == 3

UserIDs == 0..MaxUint32

Inc32(x) == (x + 1) % (MaxUint32 + 1)

NoRanges == <<"none">>

\* eng.rangeCache after the instance stopped
stoppedRange == <<>>

NoStepCall == [op |-> "none", user |-> 0, res |-> "none", start |-> 0, end |-> 0]

Minimum(bm) == CHOOSE u \in bm : \A v \in bm : u <= v

Maximum(bm) == CHOOSE u \in bm : \A v \in bm : v <= u

\* util.BMSplit with a shard size: runs of consecutive members of the
\* bitmap, maxPerShard members a run
BMSplitPerShard(bm, maxPerShard) ==
    LET n == (Cardinality(bm) + maxPerShard - 1) \div maxPerShard
    IN [i \in 1..n |->
           {u \in bm : /\ Rank(bm, u) > (i - 1) * maxPerShard
                       /\ Rank(bm, u) <= i * maxPerShard}]

\* the entry addShardRangesToCache appends for a shard
shardRange(shard) == <<Minimum(shard), Inc32(Maximum(shard))>>

\* engine.addShardRangesToCache: the cached ranges if there are any, the
\* ranges of the shards otherwise
addShardRangesToCache(cache, shardBMs) ==
    IF cache # NoRanges THEN cache
    ELSE [i \in 1..Len(shardBMs) |-> shardRange(shardBMs[i])]

\* engine.maybeLoadInstanceStateShardRanges
maybeLoadInstanceStateShardRanges(cache, inst) ==
    IF cache # NoRanges THEN [err |-> FALSE, ranges |-> cache]
    ELSE IF inst.state = "none" THEN [err |-> TRUE, ranges |-> NoRanges]
    ELSE [err |-> FALSE,
          ranges |-> addShardRangesToCache(
                         cache, BMSplitPerShard(inst.crowd, inst.maxPerShard))]

\* the condition of Step's loop
covers(r, u) == u >= r[1] /\ u < r[2]

\* Step's loop: the first range that holds the user, <<0, 0>> if none does
findRange(ranges, u) ==
    IF \E i \in 1..Len(ranges) : covers(ranges[i], u)
    THEN ranges[CHOOSE i \in 1..Len(ranges) :
                   /\ covers(ranges[i], u)
                   /\ \A j \in 1..(i - 1) : ~covers(ranges[j], u)]
    ELSE <<0, 0>>

\* engine.Step up to the command it submits
stepResult(cache, inst, u) ==
    LET l == maybeLoadInstanceStateShardRanges(cache, inst)
        r == findRange(l.ranges, u)
        res(x) == [op |-> "Step", user |-> u, res |-> x,
                   start |-> r[1], end |-> r[2]]
    IN IF l.err THEN [NoStepCall EXCEPT !.op = "Step", !.user = u,
                                        !.res = "not started"]
       ELSE IF Len(l.ranges) = 0
       THEN [NoStepCall EXCEPT !.op = "Step", !.user = u, !.res = "stopped"]
       ELSE IF r[1] = 0 /\ r[2] = 0 THEN res("range not found")
       ELSE res("sent")

\* doStartInstanceEvent splits the crowd and caches the shard ranges
CacheShardRanges ==
    /\ rinstance.state = "started"
    /\ rangeCache' = addShardRangesToCache(
                         rangeCache,
                         BMSplitPerShard(rinstance.crowd, rinstance.maxPerShard))
    /\ stepCall' = NoStepCall
    /\ UNCHANGED <<rinstance, tranVars, engVars, queueVars, regVars, loadVars, stopVars>>

\* engine.Step for an event of user u
EngineStep ==
    /\ \E u \in UserIDs :
          LET l == maybeLoadInstanceStateShardRanges(rangeCache, rinstance)
          IN /\ stepCall' = stepResult(rangeCache, rinstance, u)
             /\ rangeCache' = l.ranges
    /\ UNCHANGED <<rinstance, tranVars, engVars, queueVars, regVars, loadVars, stopVars>>

\* doStoppedInstanceEvent marks the instance's ranges as stopped
StoppedRanges ==
    /\ rinstance.state = "started"
    /\ rinstance' = [rinstance EXCEPT !.state = "stopped"]
    /\ rangeCache' = stoppedRange
    /\ stepCall' = NoStepCall
    /\ UNCHANGED <<tranVars, engVars, queueVars, regVars, loadVars, stopVars>>

-----------------------------------------------------------------------------
(* The worker registry of one node under the store's worker events and the *)
(* StopAt callbacks of the timer wheel.                                     *)

\* how a shard state's StopAt stands to the clock when its event is handled:
\* 0 (no deadline), already passed, or still ahead
Deadlines == {"none", "past", "future"}

\* the worker events the store's watcher can hand to this node
WorkerEvents ==
    {[Event("RunningInstanceWorker", NoInstance, i) EXCEPT !.deadline = d] :
        i \in ShardIdx, d \in Deadlines}
    \cup {Event("RemoveInstanceWorker", NoInstance, i) : i \in ShardIdx}
    \cup {Event("StoppedInstance", NoInstance, 0)}

\* stopWorker callbacks for key i that are scheduled or will be once the
\* queued events are handled
armed(i) ==
    timers[i] + Cardinality({k \in 1..Len(eventC) :
                               /\ eventC[k].type = "RunningInstanceWorker"
                               /\ eventC[k].index = i
                               /\ eventC[k].deadline = "future"})

\* the store's watcher puts a worker event on eventC
StoreEmits ==
    /\ ~engFatal
    /\ Len(eventC) < MaxRegEvents
    /\ \E ev \in WorkerEvents :
          /\ ev.deadline = "future" => armed(ev.index) < MaxTimers
          /\ eventC' = Append(eventC, ev)
    /\ call' = NoCall
    /\ UNCHANGED <<cur, nextID, bitmaps, shards, history, inputQ,
                   retryNewInstanceC, retryStoppingInstanceC,
                   retryCompleteInstanceC, workers, gc, engFatal, agg, nfail,
                   tranVars, queueVars, routeVars, regVars, loadVars, stopVars>>

\* the timer wheel runs eng.stopWorker for a worker whose StopAt came: the
\* key leaves the registry and the worker is stopped; no store command is
\* issued
StopAtFires ==
    /\ ~engFatal
    /\ \E i \in ShardIdx :
          /\ timers[i] > 0
          /\ timers' = [timers EXCEPT ![i] = @ - 1]
          /\ workers' = workers \ {i}
    /\ call' = NoCall
    /\ UNCHANGED <<cur, nextID, bitmaps, shards, history, inputQ, eventC,
                   retryNewInstanceC, retryStoppingInstanceC,
                   retryCompleteInstanceC, gc, engFatal, agg, nfail,
                   tranVars, queueVars, routeVars, loadVars, stopVars>>

-----------------------------------------------------------------------------
(* The chain walk of maybeTriggerDirectSteps, one iteration of its loop at  *)
(* a time, on workers with any direct-step table.                           *)

ChainNames == <<"S1", "S2", "S3">>

\* every workflow of three steps, each Direct or Conditional with any
\* target: the direct edges may form a cycle
ChainWorkflows ==
    {[i \in 1..3 |-> Step(ChainNames[i], t[i], ChainNames[n[i]], 0)] :
        t \in [1..3 -> {Direct, Conditional}], n \in [1..3 -> 1..3]}

\* the user the walk moves
ChainWho == WhoUser(1)

\* maybeTriggerDirectSteps is entered for a direct step `to` at index idx:
\* from := ctx.to, to := directSteps[from]
ChainEnter ==
    /\ ~chainWalk.on
    /\ \E idx \in 1..NSteps :
          /\ isDirectStep(w.states[idx].name)
          /\ chainWalk' = [on |-> TRUE, idx |-> idx, from |-> w.states[idx].name,
                      to |-> directSteps(w.states[idx].name), hops |-> 0]
    /\ UNCHANGED <<w, tran, tick, nops, nticks, wpanic, nlate>>
    /\ UNCHANGED <<engVars, queueVars, routeVars, regVars, loadVars, stopVars>>

\* one iteration of the `for` loop: the hop is recorded; a target that is
\* not direct ends the loop and the users are moved from the step at idx to
\* the target, a direct target is followed
ChainHop ==
    /\ chainWalk.on
    /\ chainWalk.hops < MaxHops
    /\ LET t1 == addChanged(tran, changedCtx(chainWalk.from, chainWalk.to, ChainWho, 0))
       IN IF ~isDirectStep(chainWalk.to)
          THEN LET t2 == removeFromStep(t1, chainWalk.idx, ChainWho).tran
                   i == CHOOSE k \in 1..NSteps :
                           /\ w.states[k].name = chainWalk.to
                           /\ \A j \in 1..(k - 1) :
                                  w.states[j].name # chainWalk.to
               IN /\ tran' = moveToStep(t2, i, ChainWho).tran
                  /\ chainWalk' = [chainWalk EXCEPT !.on = FALSE, !.hops = @ + 1]
          ELSE /\ tran' = t1
               /\ chainWalk' = [chainWalk EXCEPT !.from = chainWalk.to,
                                       !.to = directSteps(chainWalk.to),
                                       !.hops = @ + 1]
    /\ UNCHANGED <<w, tick, nops, nticks, wpanic, nlate>>
    /\ UNCHANGED <<engVars, queueVars, routeVars, regVars, loadVars, stopVars>>

-----------------------------------------------------------------------------
(* The KV crowd loader: kvLoader.Get reads a stored bitmap page by page.    *)
(* User IDs are uint32, here on the narrower unsigned type of the routing.  *)

NoLoad == [phase |-> "idle", stored |-> {}, bm |-> {}, start |-> 0, total |-> 0]

\* the answer of the store to a BMRange request (req.Start, req.Limit): the
\* stored IDs from `from` on, in ascending order, `n` of them at most
BMRange(stored, from, n) ==
    {u \in stored : /\ u >= from
                    /\ Cardinality({v \in stored : v >= from /\ v < u}) < n}

\* kvLoader.Get up to its loop: an empty bitmap, start = 0, total = 0
LoaderGet ==
    /\ kvload.phase = "idle"
    /\ kvload' = [kvload EXCEPT !.phase = "paging"]
    /\ UNCHANGED <<tranVars, engVars, queueVars, routeVars, regVars, stopVars>>

\* one iteration of the loop of kvLoader.Get
LoaderPage ==
    /\ kvload.phase = "paging"
    /\ \E fails \in BOOLEAN :
          LET values == BMRange(kvload.stored, kvload.start, limit)
              bm == kvload.bm \cup values
          IN kvload' =
                IF fails THEN [kvload EXCEPT !.phase = "error"]
                ELSE IF values = {} THEN [kvload EXCEPT !.phase = "done"]
                ELSE [kvload EXCEPT
                         !.bm = bm,
                         !.start = Inc32(Maximum(bm)),
                         !.total = (@ + Cardinality(values)) % (2 ^ TotalBits)]
    /\ UNCHANGED <<tranVars, engVars, queueVars, routeVars, regVars, stopVars>>

LoadIdle == kvload = NoLoad

-----------------------------------------------------------------------------
(* The stop of a running instance after its workflow's Duration: the        *)
(* controller's loop (handleEvent), the timer wheel that runs               *)
(* addToInstanceStop, and the channel stopInstanceC between them, for one   *)
(* workflow.  The store's side (an instance reaching Running, the API's     *)
(* StopInstance, the end of the stopping) is the environment.               *)

Times == 0..MaxTime

\* the state before any instance of the workflow ran
NoCtl(duration) ==
    [now |-> 0,
     duration |-> duration,          \* Snapshot.Duration of the workflow
     state |-> "None",               \* state of the current instance
     startedAt |-> 0,                \* its StartedAt
     starts |-> 0,
     events |-> <<>>,                \* instance events waiting on eventC
     wheel |-> [t \in Times |-> 0],  \* addToInstanceStop callbacks due at t
     stopInstanceC |-> 0,            \* workflow IDs waiting in the channel
     loopBlocked |-> FALSE,          \* the loop waits in a send of its own
     wheelBlocked |-> FALSE,         \* a callback waits in its send
     fails |-> 0]

\* a channel send that never finds the channel full
roomAlways(n) == TRUE

\* `eng.stopInstanceC <- id` goes through at once: the buffer has room
room(n) == n < StopInstanceCap

\* time.Now() moves on
ClockTick ==
    /\ ctl.now < MaxTime
    /\ ctl' = [ctl EXCEPT !.now = @ + 1]
    /\ UNCHANGED <<tranVars, engVars, queueVars, routeVars, regVars, loadVars>>

\* the store applies Started: the instance is Running from now on and the
\* RunningInstance event carries it.  Every timer the instance can lead to
\* falls inside the clock's range
StoreStarted ==
    /\ ctl.state \in {"None", Stopped}
    /\ ctl.starts < MaxStarts
    /\ ctl.now + ctl.duration + MaxStopFail * retryInterval <= MaxTime
    /\ ctl' = [ctl EXCEPT !.state = Running, !.startedAt = ctl.now,
                          !.starts = @ + 1,
                          !.events = Append(@, [type |-> "RunningInstance",
                                                startedAt |-> ctl.now])]
    /\ UNCHANGED <<tranVars, engVars, queueVars, routeVars, regVars, loadVars>>

\* the store's Stop command, as applied to the current instance; the
\* StoppingInstance event follows the change
stopApplied(c) ==
    IF c.state = Running
    THEN [c EXCEPT !.state = Stopping,
                   !.events = Append(@, [type |-> "StoppingInstance",
                                         startedAt |-> c.startedAt])]
    ELSE c

\* the API's StopInstance is applied by the store
StoreStop ==
    /\ ctl.state = Running
    /\ ctl' = stopApplied(ctl)
    /\ UNCHANGED <<tranVars, engVars, queueVars, routeVars, regVars, loadVars>>

\* the loop handles the StoppingInstance event at the head of eventC and
\* the stopping comes to its end: the store applies Stopped
DoStoppingInstanceEvent ==
    /\ ~ctl.loopBlocked
    /\ ctl.events # <<>>
    /\ Head(ctl.events).type = "StoppingInstance"
    /\ ctl' = [ctl EXCEPT !.events = Tail(@),
                          !.state = IF @ = Stopping THEN Stopped ELSE @]
    /\ UNCHANGED <<tranVars, engVars, queueVars, routeVars, regVars, loadVars>>

\* engine.doStartedInstanceEvent, run by the loop for the head of eventC
DoStartedInstanceEvent ==
    /\ ~ctl.loopBlocked
    /\ ctl.events # <<>>
    /\ Head(ctl.events).type = "RunningInstance"
    /\ LET instance == Head(ctl.events)
           after == ctl.duration - (ctl.now - instance.startedAt)
           rest == [ctl EXCEPT !.events = Tail(@)]
       IN ctl' =
             IF ctl.duration = 0 THEN rest
             ELSE IF after <= 0
             THEN IF room(ctl.stopInstanceC)
                  THEN [rest EXCEPT !.stopInstanceC = @ + 1]
                  ELSE [rest EXCEPT !.loopBlocked = TRUE]
             ELSE [rest EXCEPT !.wheel[ctl.now + after] = @ + 1]
    /\ UNCHANGED <<tranVars, engVars, queueVars, routeVars, regVars, loadVars>>

\* the timer wheel runs a callback that is due: engine.addToInstanceStop
AddToInstanceStop ==
    /\ ~ctl.wheelBlocked
    /\ \E t \in Times :
          /\ t <= ctl.now
          /\ ctl.wheel[t] > 0
          /\ ctl' = IF room(ctl.stopInstanceC)
                    THEN [ctl EXCEPT !.wheel[t] = @ - 1,
                                     !.stopInstanceC = @ + 1]
                    ELSE [ctl EXCEPT !.wheel[t] = @ - 1,
                                     !.wheelBlocked = TRUE]
    /\ UNCHANGED <<tranVars, engVars, queueVars, routeVars, regVars, loadVars>>

\* the send of a waiting callback goes through when the channel has room
SendCompletes ==
    /\ ctl.wheelBlocked
    /\ room(ctl.stopInstanceC)
    /\ ctl' = [ctl EXCEPT !.wheelBlocked = FALSE, !.stopInstanceC = @ + 1]
    /\ UNCHANGED <<tranVars, engVars, queueVars, routeVars, regVars, loadVars>>

\* handleEvent, case stopInstanceC: engine.doStopInstance
DoStopInstance ==
    /\ ~ctl.loopBlocked
    /\ ctl.stopInstanceC > 0
    /\ \E failed \in BOOLEAN :
          /\ failed => /\ ctl.fails < MaxStopFail
                       /\ ctl.now + retryInterval <= MaxTime
          /\ ctl' = IF failed
                    THEN [ctl EXCEPT !.stopInstanceC = @ - 1,
                                     !.fails = @ + 1,
                                     !.wheel[ctl.now + retryInterval] = @ + 1]
                    ELSE stopApplied([ctl EXCEPT !.stopInstanceC = @ - 1])
    /\ UNCHANGED <<tranVars, engVars, queueVars, routeVars, regVars, loadVars>>

StopIdle == ctl = NoCtl(0)

-----------------------------------------------------------------------------
(* Specifications *)

\* no stopWorker callback is scheduled
RegIdle == timers = [i \in ShardIdx |-> 0]

\* no instance to route events for
RouteIdle ==
    /\ rinstance = [crowd |-> {}, maxPerShard |-> 1, state |-> "none"]
    /\ rangeCache = NoRanges
    /\ stepCall = NoStepCall

\* the controller at rest: nothing in flight, no worker registered.  The
\* cluster's ID service has handed out ID 1 already.
ControllerIdle ==
    /\ nextID = 2
    /\ shards = [i \in ShardIdx |-> <<>>]
    /\ inputQ = <<>>
    /\ eventC = <<>>
    /\ retryNewInstanceC = <<>>
    /\ retryStoppingInstanceC = <<>>
    /\ retryCompleteInstanceC = <<>>
    /\ workers = {}
    /\ engFatal = FALSE
    /\ call = NoCall
    /\ agg = NoAgg
    /\ nfail = 0

\* a queue partition nobody appended to
QueueIdle ==
    /\ qs = [has |-> FALSE, max |-> 0, removed |-> 0, low |-> 1,
             items |-> NoItems]
    /\ consumers = [g \in Groups |-> NoConsumer]
    /\ now = 0
    /\ qb = newQueueBatch
    /\ qphase = "open"
    /\ qdown = FALSE
    /\ nsub = 0

\* a queue partition that is new, or holds countToClean items none of
\* which was removed
QueueStart ==
    /\ \E base \in {0, countToClean} :
          qs = [has |-> base > 0, max |-> base, removed |-> 0, low |-> 1,
                items |-> NoItems]
    /\ consumers = [g \in Groups |-> NoConsumer]
    /\ now = 0
    /\ qb = newQueueBatch
    /\ qphase = "open"
    /\ qdown = FALSE
    /\ nsub = 0

NextQueue ==
    \/ QueueAdd
    \/ BatchExecute
    \/ Reset
    \/ NewBatch
    \/ QueueCommit
    \/ AdvanceClock

\* a worker whose transaction was never used
TranIdle ==
    /\ w = [states |-> <<>>, totalCrowds |-> {}, stepCrowds |-> <<>>]
    /\ tran = newTransaction
    /\ tick = "idle"
    /\ nops = 0
    /\ nticks = 0
    /\ wpanic = FALSE
    /\ nlate = 0
    /\ chainWalk = NoWalk

\* a workflow that never had an instance
EngIdle ==
    /\ ControllerIdle
    /\ cur = NoInstance
    /\ bitmaps = [id \in InstanceIDs |-> NoBitmap]
    /\ history = [id \in InstanceIDs |-> NoSnapshot]
    /\ gc = {}

\* a workflow whose instance 1, started with one worker for the crowd {1},
\* ran and was stopped with user 1 in the first step; the removal of its
\* crowd bitmaps is still pending
EngPrior ==
    /\ ControllerIdle
    /\ cur = [WorkflowInstance(1, FirstVersion, 1, 1) EXCEPT !.state = Stopped]
    /\ bitmaps = [id \in InstanceIDs |->
                     IF id = 1 THEN [present |-> TRUE, bm |-> {1}]
                     ELSE NoBitmap]
    /\ history = [id \in InstanceIDs |->
                     IF id = 1
                     THEN [state |-> Stopped, instanceID |-> 1,
                           states |-> newWorkerState({1})]
                     ELSE NoSnapshot]
    /\ gc = {1}

NextTran ==
    \/ TickStart
    \/ DoStepUserEvents
    \/ DoStepTimerEvent
    \/ DoUpdateCrowd
    \/ TickEnd

InitTran == TranLoaded /\ EngIdle /\ QueueIdle /\ RouteIdle /\ RegIdle /\ LoadIdle /\ StopIdle

SpecTran == InitTran /\ [][NextTran]_vars

NextEngine ==
    \/ StartInstance
    \/ StopInstance
    \/ UpdateWorkflow
    \/ AggLoad
    \/ AggScan
    \/ HandleStartingInstance
    \/ RetryNewInstance
    \/ RetryCompleteInstance
    \/ HandleRunningInstance
    \/ HandleStoppingInstance
    \/ RetryStoppingInstance
    \/ HandleStoppedInstance
    \/ HandleRunningInstanceWorker
    \/ HandleRemoveInstanceWorker
    \/ RemoveShardBitmaps
    \/ WorkerTick

InitEngine ==
    TranIdle /\ (EngIdle \/ EngPrior) /\ QueueIdle /\ RouteIdle /\ RegIdle /\ LoadIdle /\ StopIdle

SpecEngine == InitEngine /\ [][NextEngine]_vars

\* the controller's select loop (handleEvent) keeps serving eventC and the
\* retry channels, and the timer wheel delivers every scheduled retry: a
\* handler that stays ready is run.  API calls and worker ticks are free.
SpecEngineFair ==
    /\ InitEngine
    /\ [][NextEngine]_vars
    /\ WF_vars(HandleStartingInstance)
    /\ WF_vars(RetryNewInstance)
    /\ WF_vars(RetryCompleteInstance)
    /\ WF_vars(HandleRunningInstance)
    /\ WF_vars(HandleStoppingInstance)
    /\ WF_vars(RetryStoppingInstance)
    /\ WF_vars(HandleStoppedInstance)
    /\ WF_vars(HandleRunningInstanceWorker)
    /\ WF_vars(HandleRemoveInstanceWorker)

InitQueue == TranIdle /\ EngIdle /\ QueueStart /\ RouteIdle /\ RegIdle /\ LoadIdle /\ StopIdle

SpecQueue == InitQueue /\ [][NextQueue]_vars

NextRoute ==
    \/ CacheShardRanges
    \/ EngineStep
    \/ StoppedRanges

\* an instance was created with some crowd and shard size and started; no
\* range of it is cached yet
InitRoute ==
    /\ TranIdle
    /\ EngIdle
    /\ QueueIdle
    /\ \E crowd \in SUBSET UserIDs, m \in 1..MaxPerShard :
          rinstance = [crowd |-> crowd, maxPerShard |-> m, state |-> "started"]
    /\ rangeCache = NoRanges
    /\ stepCall = NoStepCall
    /\ RegIdle
    /\ LoadIdle
    /\ StopIdle

SpecRoute == InitRoute /\ [][NextRoute]_vars

NextRegistry ==
    \/ StoreEmits
    \/ HandleRunningInstanceWorker
    \/ HandleRemoveInstanceWorker
    \/ HandleStoppedInstance
    \/ StopAtFires

\* a running instance whose every shard state is in the store, no worker
\* registered yet
InitRegistry ==
    /\ TranIdle /\ QueueIdle /\ RouteIdle /\ RegIdle /\ LoadIdle /\ StopIdle
    /\ nextID = 2
    /\ cur = [WorkflowInstance(1, FirstVersion, MaxWorkers, MaxWorkers)
                 EXCEPT !.state = Running]
    /\ bitmaps = [id \in InstanceIDs |->
                     IF id = 1 THEN [present |-> TRUE, bm |-> 1..MaxWorkers]
                     ELSE NoBitmap]
    /\ shards = [i \in ShardIdx |-> newWorkerState({i + 1})]
    /\ history = [id \in InstanceIDs |-> NoSnapshot]
    /\ inputQ = <<>>
    /\ eventC = <<>>
    /\ retryNewInstanceC = <<>>
    /\ retryStoppingInstanceC = <<>>
    /\ retryCompleteInstanceC = <<>>
    /\ workers = {}
    /\ gc = {}
    /\ engFatal = FALSE
    /\ call = NoCall
    /\ agg = NoAgg
    /\ nfail = 0

SpecRegistry == InitRegistry /\ [][NextRegistry]_vars

NextChain ==
    \/ ChainEnter
    \/ ChainHop

\* a worker with any three-step workflow and user 1 in its first step, in
\* an open tick
InitChain ==
    /\ w \in {[states |-> wf, totalCrowds |-> {1},
                stepCrowds |-> <<{1}, {}, {}>>] : wf \in ChainWorkflows}
    /\ tran = [newTransaction EXCEPT !.totalCrowds = {1},
                                     !.stepCrowds = <<{1}, {}, {}>>]
    /\ tick = "open"
    /\ nops = 0
    /\ nticks = 1
    /\ wpanic = FALSE
    /\ nlate = 0
    /\ chainWalk = NoWalk
    /\ EngIdle /\ QueueIdle /\ RouteIdle /\ RegIdle /\ LoadIdle /\ StopIdle

SpecChain == InitChain /\ [][NextChain]_vars

NextLoader ==
    \/ LoaderGet
    \/ LoaderPage

\* a bitmap of any user IDs is stored under the key; no Get has begun
InitLoader ==
    /\ TranIdle /\ EngIdle /\ QueueIdle /\ RouteIdle /\ RegIdle /\ StopIdle
    /\ \E stored \in SUBSET UserIDs :
          kvload = [NoLoad EXCEPT !.stored = stored]

SpecLoader == InitLoader /\ [][NextLoader]_vars

\* the loop of kvLoader.Get runs on: the goroutine is not starved
SpecLoaderFair == SpecLoader /\ WF_vars(LoaderPage)

NextStop ==
    \/ ClockTick
    \/ StoreStarted
    \/ StoreStop
    \/ DoStoppingInstanceEvent
    \/ DoStartedInstanceEvent
    \/ AddToInstanceStop
    \/ SendCompletes
    \/ DoStopInstance

\* a workflow with or without a Duration, no instance of which has run
InitStop ==
    /\ TranIdle /\ EngIdle /\ QueueIdle /\ RouteIdle /\ RegIdle /\ LoadIdle
    /\ \E duration \in {0, MaxDuration} : ctl = NoCtl(duration)

SpecStop == InitStop /\ [][NextStop]_vars

\* the clock runs, the timer wheel runs the callbacks that are due, and the
\* loop takes what its select finds ready
SpecStopFair ==
    /\ SpecStop
    /\ WF_vars(ClockTick)
    /\ WF_vars(DoStartedInstanceEvent)
    /\ WF_vars(DoStoppingInstanceEvent)
    /\ WF_vars(AddToInstanceStop)
    /\ WF_vars(SendCompletes)
    /\ WF_vars(DoStopInstance)

-----------------------------------------------------------------------------
(* Claims *)

(* C1: during a tick the step crowds of the transaction are pairwise       *)
(* disjoint and their union is the transaction's total crowd, whatever     *)
(* sequence of transaction operations has run.                             *)
C1_DisjointCover ==
    (tick = "open" /\ ~wpanic) =>
        /\ PairwiseDisjoint(tran.stepCrowds, NSteps)
        /\ UnionOf(tran.stepCrowds, NSteps) = tran.totalCrowds

NotStopped == {Starting, Running, Stopping}

(* C2: a StartInstance that puts a crowd under the new instance's key puts *)
(* the loaded crowd minus the crowd of the previous (stopped) instance, or  *)
(* the loaded crowd itself when the workflow had no instance; the instance  *)
(* it submits carries that crowd's cardinality as TotalCrowd.               *)
C2_StartCrowd ==
    [][(call'.op = "StartInstance" /\ call'.submitted) =>
          LET crowd == IF cur.state = "None" THEN call'.crowdIn
                       ELSE call'.crowdIn \ bitmaps[cur.instanceID].bm
          IN /\ bitmaps'[nextID] = [present |-> TRUE, bm |-> crowd]
             /\ call'.applied =>
                   /\ cur'.state = Starting
                   /\ cur'.instanceID = nextID
                   /\ cur'.totalCrowd = Cardinality(crowd)]_vars

\* a second instance was started with a crowd that holds user 1 of the
\* first instance's crowd, and got the crowd without that user
C2_Witness ==
    /\ call.op = "StartInstance"
    /\ call.applied
    /\ history[1].state = Stopped
    /\ 1 \in call.crowdIn
    /\ cur.instanceID = 2
    /\ bitmaps[2].bm = call.crowdIn \ {1}
    /\ cur.totalCrowd = Cardinality(call.crowdIn) - 1

C4_NoOp ==
    [][(cur.state \in NotStopped /\ call'.op = "StartInstance") =>
          /\ \A crowdIn \in SUBSET CrowdUsers, nw \in 1..MaxWorkers,
                fail \in StartFailures :
                LET r == startInstance(cur, crowdIn, nw, FirstVersion, fail)
                IN ~r.alloc /\ ~r.put /\ ~r.exec
          /\ ~call'.submitted
          /\ ~call'.applied
          /\ UNCHANGED <<storeVars, retryNewInstanceC,
                         retryStoppingInstanceC, retryCompleteInstanceC,
                         workers, gc, agg>>]_vars

\* StartInstance was called on a Running instance whose shards exist and
\* submitted nothing
C4_Witness ==
    /\ call.op = "StartInstance"
    /\ cur.state = Running
    /\ shards[0] # <<>>
    /\ ~call.submitted

C6_HistoryAfterStop ==
    cur.state = Stopped =>
        LET r == HistoryInstance(cur.instanceID, FALSE)
        IN /\ ~r.err
           /\ r.snap.state = Stopped
           /\ UnionOf(r.snap.states, Len(r.snap.states))
                  = bitmaps[cur.instanceID].bm

(* C7: InstanceCountState and InstanceStepState return an error whenever   *)
(* the state of one of the instance's Workers shards is missing when they   *)
(* scan the shard states.                                                   *)
C7_ErrorOnMissingShard ==
    [][(agg # NoAgg /\ agg' = NoAgg
           /\ \E i \in ShardIdx : i < agg /\ shards[i] = <<>>)
          => call'.err]_vars

(* C8: an UpdateWorkflow call rewrote the instance's snapshot if and only   *)
(* if it put one event on partition 0 of the input queue.                   *)
C8_RewriteIffEvent ==
    [][call'.op = "UpdateWorkflow" =>
          (call'.applied <=> Len(inputQ') = Len(inputQ) + 1)]_vars

(* C9: the items of a batch get the offsets after the partition's stored  *)
(* maxOffset, one by one in submission order, from 1 in a new partition;    *)
(* each response carries the offset of its request's last item; the items   *)
(* the store holds sit at consecutive offsets up to maxOffset, in           *)
(* submission order, one item an offset.                                    *)
C9_ConsecutiveOffsets ==
    /\ (qphase = "open" /\ ~qdown) =>
          \A i \in 1..Len(qb.pairs) : qb.pairs[i].off = qs.max + i
    /\ \A i, j \in 1..Len(qb.pairs) :
          i < j => qb.pairs[i].item < qb.pairs[j].item
    /\ \A k \in 1..Len(qb.resps) :
          qb.resps[k].value = qb.pairs[qb.resps[k].pairs].off
    /\ \A o \in DOMAIN qs.items :
          /\ o <= qs.max
          /\ \A o2 \in o..qs.max : o2 \in DOMAIN qs.items
          /\ \A o2 \in DOMAIN qs.items : o < o2 => qs.items[o] < qs.items[o2]
    /\ ~qs.has => qs.max = 0

\* a second batch, of two requests, continues after the items the first
\* batch wrote at offsets 1 and up
C9_Witness ==
    /\ qphase = "open"
    /\ 1 \in DOMAIN qs.items
    /\ qs.max \in DOMAIN qs.items
    /\ Len(qb.resps) = 2
    /\ qb.pairs[1].off = qs.max + 1
    /\ qb.resps[2].value = qs.max + Len(qb.pairs)

(* C10: a step that deletes items of the partition, or moves its stored    *)
(* removedOffset, goes no further than the committed offset of every        *)
(* consumer group that is alive at that time.                               *)
C10_GCSafety ==
    [][(qs'.low > qs.low \/ qs'.removed > qs.removed) =>
          \A g \in Live :
             /\ qs'.low - 1 <= consumers[g].v
             /\ qs'.removed <= consumers[g].v]_vars

\* the clean-up deleted the items up to offset 2, which the one group alive
\* had committed, while an abandoned group had committed offset 1 only
C10_Witness ==
    /\ qdown
    /\ qs.low = 3
    /\ \E g \in Groups : alive(consumers[g]) /\ consumers[g].v = 2
    /\ \E g \in Groups :
          consumers[g].present /\ ~alive(consumers[g]) /\ consumers[g].v = 1

(* C11: over any sequence of QueueCommit commands the committed offset of   *)
(* a consumer group never decreases, and a commit whose completed offset is *)
(* below the stored one leaves the stored offset as it is.                  *)
C11_CommitMonotonic ==
    [][\A g \in Groups :
          /\ consumers'[g].v >= consumers[g].v
          /\ (consumers'[g] # consumers[g] /\ consumers'[g].req < consumers[g].v)
                => consumers'[g].v = consumers[g].v]_vars

\* a group that had committed offset 2 committed offset 1 afterwards and
\* kept 2
C11_Witness ==
    \E g \in Groups :
       /\ consumers[g].present
       /\ consumers[g].req = 1
       /\ consumers[g].v = 2

(* C12: the cached shard ranges of a started instance are pairwise          *)
(* disjoint, every user of the instance's crowd lies in exactly one of      *)
(* them, and Step never answers 'range not found' for a user of the crowd.  *)
C12_RangesCover ==
    (rinstance.state = "started" /\ rangeCache # NoRanges) =>
        /\ \A i, j \in 1..Len(rangeCache) :
              i # j => \A u \in UserIDs :
                          ~(covers(rangeCache[i], u) /\ covers(rangeCache[j], u))
        /\ \A u \in rinstance.crowd :
              Cardinality({i \in 1..Len(rangeCache) :
                              covers(rangeCache[i], u)}) = 1
        /\ (stepCall.op = "Step" /\ stepCall.user \in rinstance.crowd)
              => stepCall.res # "range not found"

(* C13: applying a stepChanged(from, to, who) a second time to the          *)
(* transaction the first application produced leaves every step crowd as   *)
(* the first application left it, for one user and for a crowd, whatever    *)
(* the steps `from` and `to` are.                                           *)
C13_Idempotent ==
    (tick = "open" /\ ~wpanic) =>
        \A i, j \in 1..NSteps :
           \A target \in {WhoUser(u) : u \in AllUsers}
                          \cup {WhoUsers(S) : S \in SUBSET AllUsers} :
              LET ctx == changedCtx(w.states[i].name, w.states[j].name, target, 0)
                  once == stepChanged(tran, ctx)
              IN stepChanged(once, ctx).stepCrowds = once.stepCrowds

\* a tick moved users into a direct step and on along its chain; the same
\* stepChanged applied again changes no step crowd
C13_Witness ==
    /\ tick = "open"
    /\ ~wpanic
    /\ \E k \in 1..Len(tran.changes) :
          LET c == tran.changes[k]
          IN /\ isDirectStep(c.to)
             /\ ~isDirectStep(c.from)
             /\ c.who.users # {}
             /\ UnionOf(tran.stepCrowds, NSteps) # {}
             /\ stepChanged(tran, changedCtx(c.from, c.to, c.who, 0)).stepCrowds
                    = tran.stepCrowds

\* what C14 says of doUpdateCrowd with the new total N on the transaction t
UpdateCrowdResult(t, N) ==
    \A cb \in {0, 1} :
       LET r == doUpdateCrowd(t, [cb |-> cb, crowd |-> N])
           T == t.totalCrowds
           S == t.stepCrowds
       IN /\ r.totalCrowds = N
          /\ Len(r.stepCrowds) = Len(S)
          /\ \A i \in 1..Len(S) :
                r.stepCrowds[i] = IF i = 1 THEN (S[1] \cup (N \ T)) \cap N
                                  ELSE S[i] \cap N
          /\ \A u \in N \ T, i \in 1..Len(S) :
                u \in r.stepCrowds[i] <=> i = 1
          /\ \A u \in AllUsers \ N, i \in 1..Len(S) : u \notin r.stepCrowds[i]

(* C14: on the transaction of a tick that has not failed, doUpdateCrowd     *)
(* with new total N produces totalCrowds = N, step 0 = (S_0 union (N minus  *)
(* T)) intersect N and every other step i = S_i intersect N; the users of   *)
(* N minus T are in step 0 only and users outside N are in no step.         *)
C14_UpdateCrowd ==
    (tick = "open" /\ ~wpanic /\ ~tran.err) =>
        \A N \in SUBSET ShardUsers : UpdateCrowdResult(tran, N)

\* what C15 says of doStepUserEvents with one event of user u on the
\* transaction t, whatever the evaluator would answer
UserEventResult(t, u) ==
    LET in == {i \in 1..Len(t.stepCrowds) : u \in t.stepCrowds[i]}
    IN \A cb \in {0, 1}, o \in Outcomes :
          LET item == [cb |-> cb, events |-> <<[user |-> u, outcome |-> o]>>]
              r == doStepUserEvents(t, item)
          IN IF in = {}
             THEN /\ ~r.panic
                  /\ r.tran.stepCrowds = t.stepCrowds
                  /\ r.tran.changes = t.changes
                  /\ r.tran.err = t.err
             ELSE /\ ~r.panic
                  /\ \E i \in in :
                        /\ i <= NSteps
                        /\ r.tran = Execute([t EXCEPT !.cbs = r.tran.cbs], i,
                                            WhoUser(u), o)

(* C15: doStepUserEvents evaluates an event against exactly one step, the   *)
(* step whose crowd holds the event's user at that moment; an event whose   *)
(* user is in no step crowd calls no evaluator and changes no step crowd,   *)
(* change record or error flag.                                             *)
C15_OneStepPerEvent ==
    (tick = "open" /\ ~wpanic /\ ~tran.err) =>
        \A u \in AllUsers : UserEventResult(tran, u)

(* C16: once an evaluator returned an error in a tick, err stays set until  *)
(* reset; every later doStepUserEvents, doStepTimerEvent and doUpdateCrowd  *)
(* of the tick changes no step crowd, total crowd or change record, and     *)
(* the callback of a later item is still appended to the callbacks.         *)
C16_StickyErr ==
    [][(tick = "open" /\ ~wpanic /\ tran.err) =>
          /\ \A item \in EventItems :
                doStepUserEvents(tran, item).tran.cbs
                   = IF item.cb # 0 THEN Append(tran.cbs, item.cb) ELSE tran.cbs
          /\ \A crowd \in SUBSET ShardUsers :
                doUpdateCrowd(tran, [cb |-> 1, crowd |-> crowd]).cbs
                   = Append(tran.cbs, 1)
          /\ tick' = "open" =>
                /\ tran'.err
                /\ tran'.stepCrowds = tran.stepCrowds
                /\ tran'.totalCrowds = tran.totalCrowds
                /\ tran'.changes = tran.changes
                /\ tran'.crowdChanged = tran.crowdChanged
                /\ Len(tran'.cbs) >= Len(tran.cbs)]_vars

\* the first item of a tick failed in the evaluator; the second item was
\* handled after that and its callback was collected behind the first one
C16_Witness ==
    /\ tick = "open"
    /\ tran.err
    /\ nops = 2
    /\ nlate = 1
    /\ Len(tran.cbs) = 2
    /\ UnionOf(tran.stepCrowds, Len(tran.stepCrowds)) # {}

\* C17: under every interleaving of RunningInstanceWorker,
\* RemoveInstanceWorker and StoppedInstance events with StopAt callbacks, the
\* registry holds worker keys only, one worker each; handling a
\* RunningInstanceWorker event whose key is still registered registers
\* nothing and aborts the engine as a bug, and a key is only ever added by a
\* RunningInstanceWorker event for a key that was not registered
C17_OneWorkerPerKey ==
    [][/\ workers' \subseteq ShardIdx
       /\ (~engFatal /\ HeadIs("RunningInstanceWorker")
             /\ Head(eventC).index \in workers /\ eventC' = Tail(eventC))
               => (engFatal' /\ workers' = workers /\ timers' = timers)
       /\ \A i \in workers' \ workers :
             /\ HeadIs("RunningInstanceWorker")
             /\ Head(eventC).index = i
             /\ eventC' = Tail(eventC)
             /\ ~engFatal']_vars

\* a RunningInstanceWorker event met its key registered, with a StopAt
\* callback for that key still pending
C17_Witness ==
    /\ engFatal
    /\ \E i \in workers : timers[i] > 0

\* C18: when a StopAt callback fires for a worker, the worker leaves the
\* registry and its shard state is deleted from the store
C18_StopAtDeletesState ==
    [][\A i \in ShardIdx :
          timers'[i] < timers[i] => (i \notin workers' /\ shards'[i] = <<>>)]_vars

\* C19: whenever the Started command takes an instance from Starting to
\* Running, a shard state exists in the store for every shard of the
\* instance, on every path of the controller, retries included
C19_StartedAfterShards ==
    [][(cur.state = Starting /\ cur'.state = Running)
          => \A i \in ShardIdx : i < cur.workers => shards'[i] # <<>>]_vars

\* C20: with storage failures that end (at most MaxFail of them) and a
\* controller that keeps serving its channels, an instance in Starting
\* eventually is Running with a shard state in the store for every one of
\* its shards
C20_StartCompletes ==
    (cur.state = Starting)
        ~> (/\ cur.state = Running
            /\ \A i \in ShardIdx : i < cur.workers => shards[i] # <<>>)

\* C21: over any number of retries of the stopping handler, a step that
\* removes a shard state leaves the instance's history snapshot written, a
\* snapshot written in the same step holds the crowds of the shard states the
\* step removes, and the Stopped command is accepted only with the snapshot
\* written and the state of every shard index below Workers removed
C21_StopOrder ==
    [][/\ \A i \in ShardIdx :
             (shards[i] # <<>> /\ shards'[i] = <<>>) =>
                /\ history'[cur.instanceID].state # "None"
                /\ history[cur.instanceID].state = "None" =>
                      \A s \in 1..NEngSteps :
                         shards[i][s] \subseteq
                            history'[cur.instanceID].states[s]
       /\ (cur.state = Stopping /\ cur'.state = Stopped) =>
             /\ history'[cur.instanceID].state # "None"
             /\ \A i \in ShardIdx : i < cur.workers => shards'[i] = <<>>]_vars

\* the stopping handler failed between two shards: the snapshot is written,
\* one shard state is removed, another is still there and a retry is pending
C21_Witness ==
    /\ cur.state = Stopping
    /\ retryStoppingInstanceC # <<>>
    /\ history[cur.instanceID].state # "None"
    /\ \E i, j \in ShardIdx :
          /\ i < cur.workers /\ j < cur.workers
          /\ shards[i] = <<>> /\ shards[j] # <<>>

Targets ==
    {WhoUser(u) : u \in AllUsers} \cup {WhoUsers(S) : S \in SUBSET AllUsers}

\* C23: in every state of an open tick, for every step crowd and every
\* single-user or bulk target, removeFromStep reports changed = TRUE exactly
\* when it made the step crowd smaller
C23_RemoveChanged ==
    (tick = "open" /\ ~wpanic) =>
        \A idx \in 1..Len(tran.stepCrowds), target \in Targets :
            LET r == removeFromStep(tran, idx, target)
            IN r.changed <=> Cardinality(r.tran.stepCrowds[idx])
                                < Cardinality(tran.stepCrowds[idx])

\* C24: in every state of an open tick, for every step crowd and every
\* single-user or bulk target, moveToStep reports changed = FALSE when it
\* left the cardinality of the step crowd as it was
C24_MoveChanged ==
    (tick = "open" /\ ~wpanic) =>
        \A idx \in 1..Len(tran.stepCrowds), target \in Targets :
            LET r == moveToStep(tran, idx, target)
            IN Cardinality(r.tran.stepCrowds[idx])
                  = Cardinality(tran.stepCrowds[idx]) => ~r.changed

\* C25: in every state of an open tick whose step crowds are disjoint, for
\* every step `from`, every direct step `to` and every target whose users
\* are in `from`, stepChanged leaves the moved users in the first step that
\* is not direct on the chain of directSteps from `to`, and in no direct step
C25_DirectChainEnd ==
    (/\ tick = "open" /\ ~wpanic
     /\ Len(tran.stepCrowds) = NSteps
     /\ PairwiseDisjoint(tran.stepCrowds, NSteps)) =>
        \A i, j \in 1..NSteps, target \in Targets :
            LET M == WhoSet(target)
                ctx == changedCtx(w.states[i].name, w.states[j].name,
                                  target, 0)
                final == directChain(tran, ctx.to, directSteps(ctx.to),
                                     target).to
                r == stepChanged(tran, ctx)
            IN (/\ i # j
                /\ w.states[j].type = Direct
                /\ M # {}
                /\ M \subseteq tran.stepCrowds[i]
                /\ M \subseteq tran.totalCrowds) =>
                   \A k \in 1..NSteps :
                      /\ w.states[k].name = final
                            => M \subseteq r.stepCrowds[k]
                      /\ w.states[k].type = Direct
                            => M \cap r.stepCrowds[k] = {}

\* the hops a transition (from, to) makes: the transition itself, then the
\* direct edges followed from `to` up to the first step that is not direct
RECURSIVE chainHops(_, _)
chainHops(from, to) ==
    <<[from |-> from, to |-> to]>>
        \o (IF isDirectStep(to) THEN chainHops(to, directSteps(to)) ELSE <<>>)

\* C26: in every state of an open tick whose step crowds are disjoint, for
\* every step `from`, every direct step `to` and every target whose users are
\* in `from`, stepChanged leaves one change record for every hop of the
\* chain, holding the moved users, and the record of a hop stands before the
\* record of the next hop in the change list
C26_ChainOrder ==
    (/\ tick = "open" /\ ~wpanic
     /\ Len(tran.stepCrowds) = NSteps
     /\ PairwiseDisjoint(tran.stepCrowds, NSteps)) =>
        \A i, j \in 1..NSteps, target \in Targets :
            LET M == WhoSet(target)
                ctx == changedCtx(w.states[i].name, w.states[j].name,
                                  target, 0)
                hops == chainHops(ctx.from, ctx.to)
                r == stepChanged(tran, ctx)
                at(h) == {k \in 1..Len(r.changes) :
                             /\ r.changes[k].from = hops[h].from
                             /\ r.changes[k].to = hops[h].to}
            IN (/\ i # j
                /\ w.states[j].type = Direct
                /\ M # {}
                /\ M \subseteq tran.stepCrowds[i]
                /\ M \subseteq tran.totalCrowds) =>
                   /\ \A h \in 1..Len(hops) :
                         /\ Cardinality(at(h)) = 1
                         /\ \A k \in at(h) : M \subseteq r.changes[k].who.users
                   /\ \A h \in 1..(Len(hops) - 1) :
                         \A k \in at(h), l \in at(h + 1) : k < l

\* C27: for every direct-step table, one with a cycle of direct steps
\* included, the chain walk of maybeTriggerDirectSteps makes at most as many
\* hops as the workflow has steps
C27_ChainBounded == chainWalk.hops <= NSteps

\* C28: in every state of an open tick the change list holds at most one
\* record per (from, to) pair, and adding a change for a pair that has a
\* record adds the change's users to that record and leaves the list
\* otherwise as it was, while a change for a new pair is appended with its
\* users
C28_OneRecordPerEdge ==
    (tick = "open" /\ ~wpanic) =>
        /\ \A k, l \in 1..Len(tran.changes) :
              (tran.changes[k].from = tran.changes[l].from
                  /\ tran.changes[k].to = tran.changes[l].to) => k = l
        /\ \A i, j \in 1..NSteps, target \in Targets :
              LET c == changedCtx(w.states[i].name, w.states[j].name,
                                  target, 0)
                  r == addChanged(tran, c)
                  at == {k \in 1..Len(tran.changes) :
                            /\ tran.changes[k].from = c.from
                            /\ tran.changes[k].to = c.to}
              IN IF at # {}
                 THEN /\ Len(r.changes) = Len(tran.changes)
                      /\ \A k \in 1..Len(r.changes) :
                            IF k \in at
                            THEN r.changes[k].who.users
                                    = tran.changes[k].who.users
                                         \cup WhoSet(target)
                            ELSE r.changes[k] = tran.changes[k]
                 ELSE /\ Len(r.changes) = Len(tran.changes) + 1
                      /\ r.changes[Len(r.changes)].who.users = WhoSet(target)
                      /\ \A k \in 1..Len(tran.changes) :
                            r.changes[k] = tran.changes[k]

\* two operations of one tick moved users along the same edge and the change
\* list holds one record for it, with both users
C28_Witness ==
    /\ tick = "open"
    /\ nops = 2
    /\ \E k \in 1..Len(tran.changes) :
          Cardinality(tran.changes[k].who.users) = 2

\* C29: in every state of an open tick, for every pair of steps and every
\* bulk user set, stepChanged adds to the step crowds and to the change
\* records only users of the transaction's totalCrowds
C29_BulkScoped ==
    (tick = "open" /\ ~wpanic) =>
        \A i, j \in 1..NSteps, S \in SUBSET AllUsers :
            LET r == stepChanged(tran, changedCtx(w.states[i].name,
                                                  w.states[j].name,
                                                  WhoUsers(S), 0))
                had(c) == UNION {tran.changes[k].who.users :
                                   k \in {l \in 1..Len(tran.changes) :
                                            /\ tran.changes[l].from = c.from
                                            /\ tran.changes[l].to = c.to}}
            IN /\ \A k \in 1..Len(r.stepCrowds) :
                     r.stepCrowds[k] \ tran.stepCrowds[k]
                        \subseteq tran.totalCrowds
               /\ \A k \in 1..Len(r.changes) :
                     r.changes[k].who.users \ had(r.changes[k])
                        \subseteq tran.totalCrowds

\* a tick in which a timer step moved its users: handed the same users
\* again together with a user of another shard, stepChanged would move
\* users and keep the foreign user out
C29_Witness ==
    /\ tick = "open"
    /\ ~wpanic
    /\ \E k \in 1..Len(tran.changes), i, j \in 1..NSteps :
          /\ w.states[i].type = Timer
          /\ tran.changes[k].from = w.states[i].name
          /\ tran.stepCrowds[j] # {}
          /\ LET r == stepChanged(tran,
                          changedCtx(w.states[j].name, w.states[i].name,
                              WhoUsers(tran.stepCrowds[j] \cup {ForeignUser}),
                              0))
             IN /\ r.stepCrowds # tran.stepCrowds
                /\ ForeignUser \notin UnionOf(r.stepCrowds, Len(r.stepCrowds))

ReturnedAllOrNone ==
    [][/\ (qphase = "open" /\ qphase' = "failed") => qs' = qs
       /\ (qphase = "open" /\ qphase' = "executed") =>
             /\ \A i \in 1..Len(qb.pairs) :
                   /\ qb.pairs[i].off \in DOMAIN qs'.items
                   /\ qs'.items[qb.pairs[i].off] = qb.pairs[i].item
             /\ qb.maxOffset > 0 =>
                   /\ qs'.has
                   /\ qs'.max = qb.maxOffset
                   /\ qs'.removed = qb'.removedOffset]_vars

(* C32: the clean bound `low` of the queue's garbage collection is the      *)
(* smallest committed offset among the consumer groups fetched less than    *)
(* maxConsumerAlive ago (the largest 64-bit value when there is none); a    *)
(* group whose last fetch is maxConsumerAlive old or older does not lower   *)
(* it, and a clean-up deletes the items up to that bound.                   *)
C32_LowOverLive ==
    [][LET fresh == {g \in Groups :
                        /\ consumers[g].present
                        /\ now - consumers[g].ts < maxConsumerAlive}
           low == scanLow(Groups, MaxUint64)
       IN /\ fresh = {} => low = MaxUint64
          /\ fresh # {} =>
                /\ \E g \in fresh : low = consumers[g].v
                /\ \A g \in fresh : low <= consumers[g].v
          /\ qs'.low > qs.low => qs'.low = low + 1]_vars

\* the clean-up ran with one group that fetched in time, at offset 2, and
\* one whose last fetch is exactly maxConsumerAlive old, at offset 1
C32_Witness ==
    /\ qdown
    /\ qs.low = 3
    /\ now = maxConsumerAlive
    /\ \E g \in Groups : consumers[g].ts = now /\ consumers[g].v = 2
    /\ \E g \in Groups :
          /\ consumers[g].present
          /\ now - consumers[g].ts = maxConsumerAlive
          /\ consumers[g].v = 1

(* C37: the removedOffset the partition's offset record holds never exceeds *)
(* its maxOffset, whatever append batches have run, also after a batch that *)
(* ran the clean-up while no live consumer group had a committed offset     *)
(* (the clean bound is then the largest 64-bit value and low + 1 wraps).    *)
C37_RemovedBelowMax ==
    /\ qs.removed <= qs.max
    /\ ~qs.has => qs.removed = 0

\* a batch ran the clean-up with no live consumer group: the bound is the
\* largest 64-bit value, the end of the deleted range wrapped to 0, and the
\* process ended after the range delete
C37_Witness ==
    /\ qdown
    /\ qb.loaded
    /\ qb.valueLen = ValueLen
    /\ cleans(qb)
    /\ \A g \in Groups : ~consumers[g].present
    /\ scanLow(Groups, MaxUint64) = MaxUint64
    /\ Inc64(scanLow(Groups, MaxUint64)) = 0

(* C38: an append batch whose clean-up condition holds and whose range      *)
(* delete succeeded does not end the process: the delete is followed by the *)
(* offset record with the advanced removedOffset and the new maxOffset, and *)
(* all items of the batch are stored.                                       *)
C38_CleanupCompletes ==
    [][qs'.low > qs.low =>
          /\ ~qdown'
          /\ qphase' = "executed" =>
                /\ qs'.removed = scanLow(Groups, MaxUint64)
                /\ qs'.max = qb.maxOffset
                /\ \A i \in 1..Len(qb.pairs) :
                      /\ qb.pairs[i].off \in DOMAIN qs'.items
                      /\ qs'.items[qb.pairs[i].off] = qb.pairs[i].item]_vars

(* C40: a batch that was Reset behaves as a new batch does: the next        *)
(* QueueAdd loads maxOffset and removedOffset from the store and goes on    *)
(* from the stored maxOffset with the same offsets and responses, and       *)
(* Execute encodes the offset record, without a panic on either way.        *)
C40_ResetAsNew ==
    ~qdown =>
       \A n \in 1..MaxReqItems :
          LET r == qreset(qb)
              f == newQueueBatch
              ar == addReq(r, nsub + 1, n)
              af == addReq(f, nsub + 1, n)
          IN /\ loadPanics(r) = loadPanics(f)
             /\ ar.maxOffset = af.maxOffset
             /\ ar.removedOffset = af.removedOffset
             /\ ar.pairs = af.pairs
             /\ ar.resps = af.resps
             /\ encodePanics(ar) = encodePanics(af)

(* C36: after every start of a tick on a transaction object, also one that  *)
(* follows ticks which recorded no change, the transaction holds one step   *)
(* crowd for each step of the workflow, and step crowd i is a copy of the   *)
(* worker's crowd of step i.                                                *)
C36_OneCrowdPerStep ==
    [][(tick = "idle" /\ tick' = "open") =>
          /\ Len(tran'.stepCrowds) = Len(w.states)
          /\ \A i \in 1..Len(w.states) :
                tran'.stepCrowds[i] = w.stepCrowds[i]]_vars

(* C39: kvLoader.Get comes to an end for every stored bitmap, also one that *)
(* holds the largest user ID, and when the store returned no error the      *)
(* bitmap it returns is the stored set.                                     *)
C39_GetTerminates ==
    (kvload.phase = "paging") ~>
        \/ kvload.phase = "error"
        \/ kvload.phase = "done" /\ kvload.bm = kvload.stored

\* the controller submits its Stop command for a workflow with a Duration,
\* and not before the Duration of the running instance has passed
StopNotEarly ==
    [][ctl'.stopInstanceC < ctl.stopInstanceC =>
          /\ ctl.duration > 0
          /\ ctl.state = Running => ctl.now >= ctl.startedAt + ctl.duration]_vars

\* a running instance of a workflow with a Duration leaves Running
StopComes ==
    (ctl.state = Running /\ ctl.duration > 0) ~> (ctl.state # Running)

\* for a workflow without a Duration the controller has no Stop on its way
NoStopWithoutDuration ==
    [](ctl.duration = 0 =>
          /\ ctl.stopInstanceC = 0
          /\ \A t \in Times : ctl.wheel[t] = 0)

(* C33: a running instance of a workflow with Duration > 0 is moved to      *)
(* Stopping by the controller in the end; the controller submits the Stop   *)
(* command not before Duration seconds after the instance's StartedAt and   *)
(* again after every failure; with Duration = 0 it submits none.            *)
C33_StopAfterDuration ==
    /\ StopNotEarly
    /\ StopComes
    /\ NoStopWithoutDuration

(* C34: no callback of the timer wheel waits in its channel send: whenever  *)
(* a callback runs, with however many stops and retries pending, the        *)
(* channel takes the value at once.                                         *)
C34_CallbackNeverBlocks == ~ctl.wheelBlocked

(* C35: the controller's loop never waits in a send to a channel that only  *)
(* the loop itself receives from while the channel is full: after every     *)
(* handler it is back at its select.                                        *)
C35_LoopNeverBlocks == ~ctl.loopBlocked

=============================================================================
